---- MODULE Spec2Model ----
(***************************************************************************)
(* ovsinit: succession tracking for in-place restarts of Open vSwitch       *)
(* daemons.                                                                 *)
(*                                                                          *)
(* The module holds one state machine per layer of the repository:          *)
(*   Spec      the Marker API of the SQLite succession store                *)
(*             (CheckSuccession, Claim, CurrentOwner, GetHistory, New,      *)
(*             Close), called by markers of several identities on one       *)
(*             database.                                                    *)
(*   SpecTx    the same API with Claim as the transaction it is: insert,     *)
(*             count and trim, commit, with the other calls reading while   *)
(*             the transaction is open.                                     *)
(*   SpecFile  Marker.Claim of the file store (flock on the history file,   *)
(*             write to a temporary file, atomic rename), called by several *)
(*             processes on one path, one system call per step.             *)
(*   SpecFileRead  the same with the file store's read calls               *)
(*             (CheckSuccession, CurrentOwner, GetHistory) running next to  *)
(*             the Claims.                                                  *)
(*   SpecRun   verifier.Run: the errgroup, one goroutine per verifier, the    *)
(*             derived context, time and the caller's deadline.             *)
(*   SpecRm    FileRemoval.Verify next to the processes that change the    *)
(*             watched directory, and the end of the call's context.        *)
(*   SpecHp    HugePages.Verify next to the changes of /proc/meminfo and   *)
(*             the end of the call's context.                               *)
(*   SpecRunSet  verifier.Run over FileRemoval and HugePages, both on the  *)
(*             group's context.                                             *)
(*   SpecCleanup  appctl.Cleanup on the runtime directory, called again    *)
(*             and followed by DialBinary.                                  *)
(*   SpecBackends  the same sequence of calls made on the SQLite store    *)
(*             and on the file store.                                       *)
(*   SpecOrch  main of the orchestrator, run by several pods on one         *)
(*             succession database and one runtime directory, next to the   *)
(*             daemons that main stops and starts.                          *)
(*   SpecOrchLive  the same with daemons that may hang, under fairness of  *)
(*             main's steps.                                                *)
(***************************************************************************)
EXTENDS Integers, Sequences, FiniteSets, TLC

(***************************************************************************)
(* Identities (POD_NAME values) and bounds.                                 *)
(***************************************************************************)
Pods == {"a", "b", "c"}

\* Go's zero string: CurrentOwner of an empty table, unused result fields.
NoOwner == ""

\* const MAX_HISTORY of the SQLite store.
MAX_HISTORY == 25

\* Bound: Claim calls made during one run of the model.
MaxClaims == 3

\* Bound: Claim calls started on the file store during one run of the model.
MaxFileClaims == 3

\* maxHistory of the file store's Marker, as New sets it.
FileMaxHistory == 100

\* Bound: runs of the orchestrator started during one run of the model.
MaxStarts == 2

\* Bound: read calls (CheckSuccession, CurrentOwner, GetHistory) started on the
\* file store during one run of the model.
MaxFileReads == 2

\* Bound: Claim calls started next to the read calls of the file store.
MaxReadClaims == 1

\* Bound: verifiers passed to one call of verifier.Run.
MaxVerifiers == 2

\* Bound: the time, in ticks, up to which a call of verifier.Run is followed.
MaxTime == 2

\* Bound: changes other processes make to the directory during one Verify.
MaxFsOps == 3

\* Bound: polls of meminfo during one HugePages.Verify.
MaxPolls == 2

\* Bound: changes of the telemetry during one HugePages.Verify.
MaxMemChanges == 2

\* Bound: calls of appctl.Cleanup during one run of the model.
MaxCleanups == 2

\* Bound: Claim transactions begun during one run of the model.
MaxTxClaims == 2

VARIABLES
    table,      \* SQLite store: the rows of history_entries, a set of HistoryEntry
    seq,        \* SQLite store: last ID handed out by the AUTOINCREMENT primary key
    open,       \* Marker API: open[p], marker of identity p holds an open *gorm.DB
    pc,         \* Marker API: pc[p], where marker p stands inside CheckSuccession
    ret,        \* Marker API: what the last completed call returned
    lastClaim,  \* history: identity of the most recent successful Claim
    nclaims,    \* history: number of Claim calls made so far
    restarted,  \* history: the marker of lastClaim was opened anew since that Claim
    lastSeq,    \* history: lastSeq[p], the ID of the latest Claim of p, 0 before any
    split,      \* history: the markers whose CheckSuccession, under way or the last
                \*          call to return, had a Claim commit between its two reads
    scen,       \* history: how much of the rotation scenario the run has followed
    fpath,      \* file store: the inode m.path names, 0 when there is no such file
    fnode,      \* file store: fnode[i], the content of inode i
    flocks,     \* file store: flocks[i], the processes holding a flock on inode i
    fproc,      \* file store: fproc[p], process p inside Marker.Claim
    fclock,     \* file store: time.Now()
    fok,        \* history: fok[p], number of Claim calls of p that returned nil
    fclaims,    \* history: number of Claim calls started
    fret,       \* file store: what the last completed call returned
    freads,     \* history: number of read calls started
    opc,        \* orchestrator: opc[p], where main of pod p stands
    dstate,     \* daemon: dstate[p], the daemon that main of pod p exec'd
    pidfile,    \* runtime directory: the daemon whose pid <binary>.pid holds
    ctl,        \* runtime directory: the daemons whose <binary>.<pid>.ctl exists
    conn,       \* orchestrator: conn[p], the daemon p's appctl client is connected to
    passed,     \* history: passed[p], how CheckSuccession let this run of p proceed
    raced,      \* history: pairs of pods that both passed before either called Claim
    nstarts,    \* history: number of orchestrator runs started
    checked,    \* orchestrator: checked[p], what CheckSuccession returned to this run
    trace,      \* history: trace[p], the operations this run of main has done
    txn,        \* SQLite store: the open write transaction and its uncommitted rows
    verifiers,  \* verifier.Run: the verifiers passed to Run
    deadline,   \* verifier.Run: the time at which the caller's context expires
    clock,      \* verifier.Run: the time
    ngo,        \* verifier.Run: number of goroutines g.Go has launched
    task,       \* verifier.Run: task[i], the goroutine of verifier i
    gerr,       \* errgroup: the error errOnce recorded
    gctx,       \* errgroup: state of the derived context
    runret,     \* verifier.Run: what Run returned
    failOrder,  \* history: the verifiers whose Verify returned an error, in order
    dirFiles,   \* FileRemoval: the files in the directory of the pattern
    pattern,    \* FileRemoval: v.pattern
    vpc,        \* FileRemoval: where Verify stands
    matches,    \* FileRemoval: what filepath.Glob returned
    watching,   \* FileRemoval: the watcher is subscribed to the directory
    events,     \* FileRemoval: watcher.Events, the notifications not yet received
    vctx,       \* FileRemoval: state of the context Verify was called with
    vret,       \* FileRemoval: what Verify returned
    removed,    \* history: files Glob matched that were removed while the context was live
    nfsops,     \* history: number of changes made to the directory
    meminfo,    \* HugePages: what /proc/meminfo holds now
    procOk,     \* HugePages: the proc filesystem can be opened
    hfs,        \* HugePages: v.fs
    hpc,        \* HugePages: where Verify stands
    hctx,       \* HugePages: state of the context Verify was called with
    hret,       \* HugePages: what Verify returned
    npolls,     \* history: number of polls Verify made
    nmem,       \* history: number of changes of the telemetry
    cpc,        \* Cleanup: where the call stands
    cmatches,   \* Cleanup: what filepath.Glob returned, not yet removed
    crets,      \* history: what the calls of Cleanup returned, in order
    dret,       \* the error DialBinary returned after a Cleanup
    cabsent,    \* history: the call of Cleanup began with nothing to remove
    cremoved    \* history: number of files Cleanup removed

sqlVars ==
    <<table, seq, open, pc, ret, lastClaim, nclaims, restarted, lastSeq, split,
      scen>>

fileVars == <<fpath, fnode, flocks, fproc, fclock, fok, fclaims, fret, freads>>

orchVars == <<opc, dstate, pidfile, ctl, conn, passed, raced, nstarts, checked, trace>>

\* The variables of the Marker API's calling sequence, which main does not use.
markerAux ==
    <<open, pc, ret, lastClaim, nclaims, restarted, lastSeq, split, scen>>

txVars == <<txn>>

runVars == <<verifiers, deadline, clock, ngo, task, gerr, gctx, runret, failOrder>>

rmVars == <<dirFiles, pattern, vpc, matches, watching, events, vctx, vret, removed, nfsops>>

hpVars == <<meminfo, procOk, hfs, hpc, hctx, hret, npolls, nmem>>

clVars == <<cpc, cmatches, crets, dret, cabsent, cremoved>>

\* What the actions of each layer leave alone.
markerFrame == <<fileVars, orchVars, txVars, runVars, rmVars, hpVars, clVars>>

fileFrame == <<sqlVars, orchVars, txVars, runVars, rmVars, hpVars, clVars>>

orchFrame == <<fileVars, txVars, runVars, rmVars, hpVars, clVars>>

runFrame == <<sqlVars, fileVars, orchVars, txVars, rmVars, hpVars, clVars>>

rmFrame == <<sqlVars, fileVars, orchVars, txVars, runVars, hpVars, clVars>>

hpFrame == <<sqlVars, fileVars, orchVars, txVars, runVars, rmVars, clVars>>

clFrame == <<sqlVars, fileVars, txVars, runVars, rmVars, hpVars>>

vars == <<sqlVars, fileVars, orchVars, txVars, runVars, rmVars, hpVars, clVars>>

(***************************************************************************)
(* The SQLite store.                                                        *)
(***************************************************************************)
HistoryEntry(id, owner) == [ID |-> id, Owner |-> owner]

\* The rows of the table in some order.
RECURSIVE Rows(_)
Rows(t) ==
    IF t = {} THEN <<>>
    ELSE LET e == CHOOSE x \in t : TRUE
         IN  Append(Rows(t \ {e}), e)

\* Order("id DESC").Find: the rows, highest ID first.
OrderByIdDesc(t) == SortSeq(Rows(t), LAMBDA x, y : x.ID > y.ID)

GetHistory(t) == OrderByIdDesc(t)

Owners(h) == [i \in 1..Len(h) |-> h[i].Owner]

\* A bug CurrentOwner could have: gorm.ErrRecordNotFound not told apart from a
\* failed query.
CurrentOwner_NotFoundIsError(t) ==
    IF t = {}
    THEN [owner |-> NoOwner, err |-> "failed to get current owner"]
    ELSE [owner |-> OrderByIdDesc(t)[1].Owner, err |-> "nil"]

\* A bug CurrentOwner could have: Order("id ASC"), the oldest row.
CurrentOwner_Oldest(t) ==
    IF t = {}
    THEN [owner |-> NoOwner, err |-> "nil"]
    ELSE [owner |-> OrderByIdDesc(t)[Cardinality(t)].Owner, err |-> "nil"]

\* CurrentOwner: Order("id DESC").First; gorm.ErrRecordNotFound gives "", nil.
CurrentOwner(t) ==
    IF t = {}
    THEN [owner |-> NoOwner, err |-> "nil"]
    ELSE [owner |-> OrderByIdDesc(t)[1].Owner, err |-> "nil"]

\* A bug the membership query could have: COUNT(*) > 1.
WasOwner_MoreThanOne(t, identity) ==
    Cardinality({e \in t : e.Owner = identity}) > 1

\* A bug the membership query could have: Where("owner != ?").
WasOwner_NotEqual(t, identity) == \E e \in t : e.Owner # identity

\* SELECT COUNT(*) > 0 WHERE owner = identity.
WasOwner(t, identity) == \E e \in t : e.Owner = identity

\* The highest ID among the rows of each identity in t, 0 where it has none.
LatestOf(t) ==
    [p \in Pods |->
        IF \E e \in t : e.Owner = p
        THEN CHOOSE n \in {e.ID : e \in t} :
                /\ \E e \in t : e.ID = n /\ e.Owner = p
                /\ \A e \in t : e.Owner = p => e.ID <= n
        ELSE 0]

\* A bug the trim could have: Order("id ASC") in the subquery, which keeps the
\* oldest rows.
LimitIdAsc(t, n) ==
    LET h == OrderByIdDesc(t)
    IN  {h[i].ID : i \in (IF Len(h) < n THEN 1 ELSE Len(h) - n + 1)..Len(h)}

\* Select("id").Order("id DESC").Limit(n)
LimitIdDesc(t, n) ==
    LET h == OrderByIdDesc(t)
    IN  {h[i].ID : i \in 1..(IF Len(h) < n THEN Len(h) ELSE n)}

\* A bug the hook could have: no trim at all.
AfterCreate_NoTrim(t) == t

\* The AfterCreate hook: count > MAX_HISTORY deletes the rows whose id is not
\* among the MAX_HISTORY highest.
AfterCreate(t) ==
    IF Cardinality(t) > MAX_HISTORY
    THEN {e \in t : e.ID \in LimitIdDesc(t, MAX_HISTORY)}
    ELSE t

\* A bug Create could have: the id taken from the number of rows, which hands
\* out an id again once rows were trimmed.
Create_RowCount(t, s, owner) ==
    AfterCreate(t \cup {HistoryEntry(Cardinality(t) + 1, owner)})

\* gorm Create: INSERT with the next AUTOINCREMENT id and the AfterCreate hook,
\* in the one transaction gorm opens for a Create.
Create(t, s, owner) == AfterCreate(t \cup {HistoryEntry(s + 1, owner)})

\* A bug New could have: a migration that creates the table anew.
AutoMigrate_Recreate(t) == {}

\* db.AutoMigrate(&HistoryEntry{}): CREATE TABLE IF NOT EXISTS, rows kept.
AutoMigrate(t) == t

(***************************************************************************)
(* Results of the Marker API.                                               *)
(***************************************************************************)
Ret(who, op) ==
    [who |-> who, op |-> op, shouldProceed |-> FALSE, isReplaced |-> FALSE,
     owner |-> NoOwner, history |-> <<>>, err |-> "nil"]

\* The markers of S that stand between the two reads of CheckSuccession.
Underway(S) == {q \in S : pc[q] = "wasOwner"}

Verdict(who, proceed, replaced) ==
    [Ret(who, "CheckSuccession") EXCEPT !.shouldProceed = proceed,
                                         !.isReplaced = replaced]

(***************************************************************************)
(* The rotation scenario of TestMultiplePodRotations: pods a, b, c, a, b    *)
(* check, and claim when told to proceed.                                   *)
(***************************************************************************)
Script ==
    << <<"CheckSuccession", "a">>, <<"Claim", "a">>,
       <<"CheckSuccession", "b">>, <<"Claim", "b">>,
       <<"CheckSuccession", "c">>, <<"Claim", "c">>,
       <<"CheckSuccession", "a">>, <<"CheckSuccession", "b">> >>

ScenOff == -1

Follow(s, op, p) ==
    IF s >= 0 /\ s < Len(Script) /\ Script[s + 1] = <<op, p>>
    THEN s + 1 ELSE ScenOff

\* No write transaction is open.
NoTxn == [owner |-> NoOwner, step |-> "none", rows |-> {}]

(***************************************************************************)
(* Logs a store can hold when the markers of this run open it: a fresh      *)
(* store, or the full log earlier pods left behind (MAX_HISTORY claims, the *)
(* oldest one by pod o, the later ones by pod c).                           *)
(***************************************************************************)
PriorLog(k, o) ==
    {HistoryEntry(i, IF i = 1 THEN o ELSE "c") : i \in 1..k}

PriorSizes == {0, MAX_HISTORY}

PriorOwners == {"a", "c"}

InitMarker ==
    /\ \E k \in PriorSizes, o \in PriorOwners :
          /\ table = PriorLog(k, o)
          /\ seq = k
    /\ open = [p \in Pods |-> FALSE]
    /\ pc = [p \in Pods |-> "idle"]
    /\ ret = Ret(NoOwner, "none")
    /\ lastClaim = CurrentOwner(table).owner
    /\ restarted = FALSE
    /\ lastSeq = LatestOf(table)
    /\ split = {}
    /\ nclaims = 0
    /\ scen = IF table = {} THEN 0 ELSE ScenOff
    /\ txn = NoTxn

(***************************************************************************)
(* Marker API.                                                              *)
(***************************************************************************)
\* New: gorm.Open and AutoMigrate.
New(p) ==
    /\ ~open[p]
    /\ open' = [open EXCEPT ![p] = TRUE]
    /\ table' = AutoMigrate(table)
    /\ restarted' = (restarted \/ lastClaim = p)
    /\ UNCHANGED <<seq, pc, ret, lastClaim, nclaims, lastSeq, split, scen>>
    /\ UNCHANGED markerFrame

\* Close: sqlDB.Close().
Close(p) ==
    /\ open[p]
    /\ pc[p] = "idle"
    /\ open' = [open EXCEPT ![p] = FALSE]
    /\ UNCHANGED
          <<table, seq, pc, ret, lastClaim, nclaims, restarted, lastSeq, split, scen>>
    /\ UNCHANGED markerFrame

\* CheckSuccession, first query: the current owner. No owner, or this
\* identity: proceed. Otherwise go on to the second query.
CheckCurrentOwner(p) ==
    /\ open[p]
    /\ pc[p] = "idle"
    /\ LET r == CurrentOwner(table)
       IN  IF r.err # "nil"
           THEN /\ ret' = [Verdict(p, FALSE, FALSE) EXCEPT !.err = r.err]
                /\ scen' = Follow(scen, "CheckSuccession", p)
                /\ pc' = pc
           ELSE IF r.owner = NoOwner \/ r.owner = p
           THEN /\ ret' = Verdict(p, TRUE, FALSE)
                /\ scen' = Follow(scen, "CheckSuccession", p)
                /\ pc' = pc
           ELSE /\ pc' = [pc EXCEPT ![p] = "wasOwner"]
                /\ UNCHANGED <<ret, scen>>
    /\ split' = (IF pc'[p] = "idle" THEN Underway(split) ELSE split) \ {p}
    /\ UNCHANGED <<table, seq, open, lastClaim, nclaims, restarted, lastSeq>>
    /\ UNCHANGED markerFrame

\* CheckSuccession, second query: did this identity ever own.
CheckWasOwner(p) ==
    /\ pc[p] = "wasOwner"
    /\ LET wasOwner == WasOwner(table, p)
       IN  ret' = Verdict(p, ~wasOwner, wasOwner)
    /\ scen' = Follow(scen, "CheckSuccession", p)
    /\ pc' = [pc EXCEPT ![p] = "idle"]
    /\ split' = Underway(split)
    /\ UNCHANGED <<table, seq, open, lastClaim, nclaims, restarted, lastSeq>>
    /\ UNCHANGED markerFrame

\* Claim: one Create.
Claim(p) ==
    /\ open[p]
    /\ pc[p] = "idle"
    /\ nclaims < MaxClaims
    /\ table' = Create(table, seq, p)
    /\ seq' = seq + 1
    /\ ret' = Ret(p, "Claim")
    /\ lastClaim' = p
    /\ nclaims' = nclaims + 1
    /\ restarted' = FALSE
    /\ lastSeq' = [lastSeq EXCEPT ![p] = seq + 1]
    /\ scen' = Follow(scen, "Claim", p)
    /\ split' = Underway(Pods)
    /\ UNCHANGED <<open, pc>>
    /\ UNCHANGED markerFrame

\* CurrentOwner called on its own.
CallCurrentOwner(p) ==
    /\ open[p]
    /\ pc[p] = "idle"
    /\ LET r == CurrentOwner(table)
       IN  ret' = [Ret(p, "CurrentOwner") EXCEPT !.owner = r.owner, !.err = r.err]
    /\ split' = Underway(split)
    /\ UNCHANGED <<table, seq, open, pc, lastClaim, nclaims, restarted, lastSeq, scen>>
    /\ UNCHANGED markerFrame

\* GetHistory.
CallGetHistory(p) ==
    /\ open[p]
    /\ pc[p] = "idle"
    /\ ret' = [Ret(p, "GetHistory") EXCEPT !.history = Owners(GetHistory(table))]
    /\ split' = Underway(split)
    /\ UNCHANGED <<table, seq, open, pc, lastClaim, nclaims, restarted, lastSeq, scen>>
    /\ UNCHANGED markerFrame

(***************************************************************************)
(* Claim as a transaction of the SQLite store.                              *)
(***************************************************************************)
\* Each statement's rows visible at once, as without a transaction.
Published_Autocommit(committed, rows) == rows

\* What the database file shows to other connections after a statement of an
\* open transaction: the committed rows, not the transaction's own.
Published(committed, rows) == committed

\* Claim: the transaction begins and Create inserts the row. SQLite admits
\* one writer; a second one waits (busy_timeout).
TxCreate(p) ==
    /\ open[p]
    /\ pc[p] = "idle"
    /\ txn.owner = NoOwner
    /\ nclaims < MaxTxClaims
    /\ txn' = [owner |-> p, step |-> "created",
               rows |-> table \cup {HistoryEntry(seq + 1, p)}]
    /\ table' = Published(table, txn'.rows)
    /\ pc' = [pc EXCEPT ![p] = "claiming"]
    /\ ret' = Ret(NoOwner, "none")
    /\ scen' = ScenOff
    /\ split' = Underway(split)
    /\ UNCHANGED <<seq, open, lastClaim, nclaims, restarted, lastSeq>>
    /\ UNCHANGED <<fileVars, orchVars, runVars, rmVars, hpVars, clVars>>

\* Claim: Count, and when the count exceeds the maximum, Delete of the rows
\* that are not among the newest.
TxTrim(p) ==
    /\ txn.owner = p
    /\ txn.step = "created"
    /\ txn' = [txn EXCEPT !.step = "trimmed", !.rows = AfterCreate(txn.rows)]
    /\ table' = Published(table, txn'.rows)
    /\ UNCHANGED
          <<seq, open, pc, ret, lastClaim, nclaims, restarted, lastSeq, split, scen>>
    /\ UNCHANGED <<fileVars, orchVars, runVars, rmVars, hpVars, clVars>>

\* Claim: the function returned nil, the transaction commits.
TxCommit(p) ==
    /\ txn.owner = p
    /\ txn.step = "trimmed"
    /\ table' = txn.rows
    /\ seq' = seq + 1
    /\ txn' = NoTxn
    /\ pc' = [pc EXCEPT ![p] = "idle"]
    /\ ret' = Ret(p, "Claim")
    /\ lastClaim' = p
    /\ nclaims' = nclaims + 1
    /\ restarted' = FALSE
    /\ lastSeq' = [lastSeq EXCEPT ![p] = seq + 1]
    /\ split' = Underway(Pods)
    /\ UNCHANGED <<open, scen>>
    /\ UNCHANGED <<fileVars, orchVars, runVars, rmVars, hpVars, clVars>>

\* Claim: Count or Delete failed, the function returned the error, the
\* transaction rolls back.
TxRollback(p) ==
    /\ txn.owner = p
    /\ txn.step = "created"
    /\ table' = Published(table, table)
    /\ txn' = NoTxn
    /\ pc' = [pc EXCEPT ![p] = "idle"]
    /\ ret' = [Ret(p, "Claim") EXCEPT !.err = "failed to count entries"]
    /\ nclaims' = nclaims + 1
    /\ split' = Underway(split)
    /\ UNCHANGED <<seq, open, lastClaim, restarted, lastSeq, scen>>
    /\ UNCHANGED <<fileVars, orchVars, runVars, rmVars, hpVars, clVars>>

(***************************************************************************)
(* The file store: HistoryData as JSON in the file m.path, guarded by a     *)
(* flock on that same file and replaced by rename.                          *)
(***************************************************************************)
FileEntry(owner, timestamp) == [Owner |-> owner, Timestamp |-> timestamp]

\* Go's zero HistoryData, with History: make([]HistoryEntry, 0).
FreshData ==
    [Current |-> FileEntry(NoOwner, 0), History |-> <<>>, Version |-> 0]

\* A file created by O_CREATE: size 0.
EmptyFile == [kind |-> "empty", data |-> FreshData]

\* encoder.Encode(&data)
Encode(data) == [kind |-> "json", data |-> data]

\* Claim's load: a file of size 0 or one that does not decode starts fresh.
Decode(content) ==
    IF content.kind = "json" THEN content.data ELSE FreshData

\* lo.Filter(data.History, entry.Owner != m.identity)
RECURSIVE FilterOut(_, _)
FilterOut(h, identity) ==
    IF h = <<>> THEN <<>>
    ELSE IF Head(h).Owner = identity THEN FilterOut(Tail(h), identity)
    ELSE <<Head(h)>> \o FilterOut(Tail(h), identity)

\* lo.Slice(collection, 0, n)
Slice(h, n) == SubSeq(h, 1, IF Len(h) < n THEN Len(h) ELSE n)

\* Claim's update of the loaded data: already at the top, only the timestamp
\* moves; otherwise the identity's entries are filtered out and a new entry
\* is put on top.
UpdateHistory(data, identity, now) ==
    LET newEntry == FileEntry(identity, now)
    IN  IF Len(data.History) > 0 /\ data.History[1].Owner = identity
        THEN [Current |-> newEntry,
              History |-> [data.History EXCEPT ![1].Timestamp = now],
              Version |-> data.Version + 1]
        ELSE [Current |-> newEntry,
              History |-> Slice(<<newEntry>> \o FilterOut(data.History, identity),
                                FileMaxHistory),
              Version |-> data.Version + 1]

\* flock(2) with LOCK_NB on inode i succeeds.
CanFlock(i, mode) ==
    IF mode = "EX" THEN flocks[i] = {}
    ELSE \A h \in flocks[i] : h[2] = "SH"

\* A bug the unlock could have: the lock is kept after the call returns.
Unlock_Leak(held, p, mode) == held

\* fileLock.Unlock(): flock(fd, LOCK_UN) and close of the descriptor.
Unlock(held, p, mode) == held \ {<<p, mode>>}

\* The history in the file m.path names now.
FileHistory ==
    IF fpath = 0 THEN <<>> ELSE Decode(fnode[fpath]).History

IdleProc ==
    [pc |-> "idle", op |-> "none", fd |-> 0, data |-> FreshData, stamp |-> 0]

\* No history file yet, no process inside Claim.
FileIdle ==
    /\ fpath = 0
    /\ fnode = <<>>
    /\ flocks = <<>>
    /\ fproc = [p \in Pods |-> IdleProc]
    /\ fclock = 0
    /\ fok = [p \in Pods |-> 0]
    /\ fclaims = 0
    /\ fret = Ret(NoOwner, "none")
    /\ freads = 0

\* A history file whose content does not decode as HistoryData.
CorruptFile == [kind |-> "corrupt", data |-> FreshData]

\* The path when the processes of this run start: no file, or a corrupted one.
FileStart ==
    /\ \E corrupted \in BOOLEAN :
          /\ fpath = (IF corrupted THEN 1 ELSE 0)
          /\ fnode = (IF corrupted THEN <<CorruptFile>> ELSE <<>>)
          /\ flocks = (IF corrupted THEN <<{}>> ELSE <<>>)
    /\ fproc = [p \in Pods |-> IdleProc]
    /\ fclock = 0
    /\ fok = [p \in Pods |-> 0]
    /\ fclaims = 0
    /\ fret = Ret(NoOwner, "none")
    /\ freads = 0

\* The SQLite store not in use.
MarkerIdle ==
    /\ table = {}
    /\ seq = 0
    /\ open = [p \in Pods |-> FALSE]
    /\ pc = [p \in Pods |-> "idle"]
    /\ ret = Ret(NoOwner, "none")
    /\ lastClaim = NoOwner
    /\ nclaims = 0
    /\ restarted = FALSE
    /\ lastSeq = LatestOf(table)
    /\ split = {}
    /\ scen = ScenOff
    /\ txn = NoTxn

\* os.OpenFile(path, O_CREATE|O_RDONLY) of the lock file: an empty file is
\* created when there is none.
TouchLockFile ==
    IF fpath = 0
    THEN /\ fnode' = Append(fnode, EmptyFile)
         /\ flocks' = Append(flocks, {})
         /\ fpath' = Len(fnode) + 1
    ELSE UNCHANGED <<fnode, flocks, fpath>>

\* flock.New(m.path) and the open of TryLock.
OpenLockFile(p) ==
    /\ TouchLockFile
    /\ fproc' = [fproc EXCEPT ![p].pc = "opened", ![p].fd = fpath']

\* Claim is called: the lock file is opened.
FClaimOpen(p) ==
    /\ fproc[p].pc = "idle"
    /\ fclaims < MaxFileClaims
    /\ fclaims' = fclaims + 1
    /\ OpenLockFile(p)
    /\ UNCHANGED <<fclock, fok, fret, freads>>
    /\ UNCHANGED fileFrame

\* TryLock: flock(fd, LOCK_EX|LOCK_NB). It locks the inode the descriptor was
\* opened on. On EWOULDBLOCK the descriptor is closed and the caller waits.
FClaimFlock(p) ==
    /\ fproc[p].pc = "opened"
    /\ IF CanFlock(fproc[p].fd, "EX")
       THEN /\ flocks' = [flocks EXCEPT ![fproc[p].fd] = @ \cup {<<p, "EX">>}]
            /\ fproc' = [fproc EXCEPT ![p].pc = "locked"]
       ELSE /\ fproc' = [fproc EXCEPT ![p].pc = "waiting", ![p].fd = 0]
            /\ UNCHANGED flocks
    /\ UNCHANGED <<fpath, fnode, fclock, fok, fclaims, fret, freads>>
    /\ UNCHANGED fileFrame

\* TryLockContext: after the retry delay the file is opened again.
FClaimRetry(p) ==
    /\ fproc[p].pc = "waiting"
    /\ OpenLockFile(p)
    /\ UNCHANGED <<fclock, fok, fclaims, fret, freads>>
    /\ UNCHANGED fileFrame

\* TryLockContext: the lock timeout ends the wait, Claim returns an error.
FClaimTimeout(p) ==
    /\ fproc[p].pc = "waiting"
    /\ fproc' = [fproc EXCEPT ![p] = IdleProc]
    /\ fret' = [Ret(p, "Claim") EXCEPT !.err = "timeout acquiring write lock"]
    /\ UNCHANGED <<fpath, fnode, flocks, fclock, fok, fclaims, freads>>
    /\ UNCHANGED fileFrame

\* With the lock held: os.OpenFile(m.path), Stat, Decode, time.Now().
FClaimLoad(p) ==
    /\ fproc[p].pc = "locked"
    /\ fclock' = fclock + 1
    /\ fproc' = [fproc EXCEPT ![p].pc = "loaded",
                              ![p].data = Decode(fnode[fpath]),
                              ![p].stamp = fclock + 1]
    /\ UNCHANGED <<fpath, fnode, flocks, fok, fclaims, fret, freads>>
    /\ UNCHANGED fileFrame

\* renameio: the updated data is written to a temporary file, which is renamed
\* over m.path; the path names a new inode from here on.
FClaimReplace(p) ==
    /\ fproc[p].pc = "loaded"
    /\ fnode' = Append(fnode,
                       Encode(UpdateHistory(fproc[p].data, p, fproc[p].stamp)))
    /\ flocks' = Append(flocks, {})
    /\ fpath' = Len(fnode) + 1
    /\ fproc' = [fproc EXCEPT ![p].pc = "replaced"]
    /\ UNCHANGED <<fclock, fok, fclaims, fret, freads>>
    /\ UNCHANGED fileFrame

\* The deferred fileLock.Unlock(); Claim returns nil.
FClaimUnlock(p) ==
    /\ fproc[p].pc = "replaced"
    /\ flocks' = [flocks EXCEPT ![fproc[p].fd] = Unlock(@, p, "EX")]
    /\ fproc' = [fproc EXCEPT ![p] = IdleProc]
    /\ fok' = [fok EXCEPT ![p] = @ + 1]
    /\ fret' = Ret(p, "Claim")
    /\ UNCHANGED <<fpath, fnode, fclock, fclaims, freads>>
    /\ UNCHANGED fileFrame

\* The read calls of the file store's Marker.
ReadOps == {"CheckSuccession", "CurrentOwner", "GetHistory"}

\* lo.FindIndexOf(data.History, entry.Owner == m.identity): 0 when not found,
\* else the position counted from 1.
RECURSIVE FindIndexOf(_, _, _)
FindIndexOf(h, identity, i) ==
    IF i > Len(h) THEN 0
    ELSE IF h[i].Owner = identity THEN i
    ELSE FindIndexOf(h, identity, i + 1)

\* readWithLock's decode: a file that does not decode is an error.
ReadDecode(content) ==
    IF content.kind = "json"
    THEN [data |-> content.data, err |-> "nil"]
    ELSE [data |-> FreshData, err |-> "failed to parse history"]

\* What a read call returns from the result of readWithLock.
ReadResult(p, op, r) ==
    IF r.err # "nil"
    THEN [IF op = "CheckSuccession" THEN Verdict(p, FALSE, FALSE) ELSE Ret(p, op)
          EXCEPT !.err = r.err]
    ELSE IF op = "CheckSuccession"
    THEN LET position == FindIndexOf(r.data.History, p, 1)
         IN  IF position = 0 \/ position = 1
             THEN Verdict(p, TRUE, FALSE)
             ELSE Verdict(p, FALSE, TRUE)
    ELSE IF op = "CurrentOwner"
    THEN [Ret(p, op) EXCEPT !.owner = r.data.Current.Owner]
    ELSE [Ret(p, op) EXCEPT !.history = Owners(r.data.History)]

\* A read call begins: readWithLock, flock.New and the open of TryRLock, which
\* creates an empty file when there is none.
FReadOpen(p) ==
    /\ fproc[p].pc = "idle"
    /\ freads < MaxFileReads
    /\ freads' = freads + 1
    /\ \E op \in ReadOps :
          /\ TouchLockFile
          /\ fproc' = [fproc EXCEPT ![p].pc = "ropened", ![p].op = op,
                                    ![p].fd = fpath']
    /\ UNCHANGED <<fclock, fok, fclaims, fret>>
    /\ UNCHANGED fileFrame

\* TryRLock: flock(fd, LOCK_SH|LOCK_NB) on the opened descriptor.
FReadFlock(p) ==
    /\ fproc[p].pc = "ropened"
    /\ IF CanFlock(fproc[p].fd, "SH")
       THEN /\ flocks' = [flocks EXCEPT ![fproc[p].fd] = @ \cup {<<p, "SH">>}]
            /\ fproc' = [fproc EXCEPT ![p].pc = "rlocked"]
       ELSE /\ fproc' = [fproc EXCEPT ![p].pc = "rwaiting", ![p].fd = 0]
            /\ UNCHANGED flocks
    /\ UNCHANGED <<fpath, fnode, fclock, fok, fclaims, fret, freads>>
    /\ UNCHANGED fileFrame

\* TryRLockContext: after the retry delay the file is opened again.
FReadRetry(p) ==
    /\ fproc[p].pc = "rwaiting"
    /\ TouchLockFile
    /\ fproc' = [fproc EXCEPT ![p].pc = "ropened", ![p].fd = fpath']
    /\ UNCHANGED <<fclock, fok, fclaims, fret, freads>>
    /\ UNCHANGED fileFrame

\* TryRLockContext: the lock timeout ends the wait, the call returns the error.
FReadTimeout(p) ==
    /\ fproc[p].pc = "rwaiting"
    /\ fret' = ReadResult(p, fproc[p].op,
                          [data |-> FreshData, err |-> "timeout acquiring read lock"])
    /\ fproc' = [fproc EXCEPT ![p] = IdleProc]
    /\ UNCHANGED <<fpath, fnode, flocks, fclock, fok, fclaims, freads>>
    /\ UNCHANGED fileFrame

\* With the shared lock held: os.Open(m.path), Decode, the deferred Unlock,
\* and the return of the call.
FReadReturn(p) ==
    /\ fproc[p].pc = "rlocked"
    /\ fret' = ReadResult(p, fproc[p].op, ReadDecode(fnode[fpath]))
    /\ flocks' = [flocks EXCEPT ![fproc[p].fd] = Unlock(@, p, "SH")]
    /\ fproc' = [fproc EXCEPT ![p] = IdleProc]
    /\ UNCHANGED <<fpath, fnode, fclock, fok, fclaims, freads>>
    /\ UNCHANGED fileFrame

(***************************************************************************)
(* The orchestrator: main, one process per pod, and the daemons of the      *)
(* runtime directory /run/openvswitch.                                      *)
(***************************************************************************)
\* No orchestrator and no daemon.
OrchIdle ==
    /\ opc = [p \in Pods |-> "off"]
    /\ dstate = [p \in Pods |-> "none"]
    /\ pidfile = NoOwner
    /\ ctl = {}
    /\ conn = [p \in Pods |-> NoOwner]
    /\ passed = [p \in Pods |-> "no"]
    /\ raced = {}
    /\ nstarts = 0
    /\ checked = [p \in Pods |-> Ret(p, "none")]
    /\ trace = [p \in Pods |-> <<>>]

(***************************************************************************)
(* appctl.Cleanup: no call.                                                 *)
(***************************************************************************)
ClIdle ==
    /\ cpc = "idle"
    /\ cmatches = {}
    /\ crets = <<>>
    /\ dret = "none"
    /\ cabsent = FALSE
    /\ cremoved = 0

(***************************************************************************)
(* verifier.HugePages: no call of Verify.                                   *)
(***************************************************************************)
\* A *uint64 of procfs.Meminfo: nil, or a pointer to n.
NilPtr == <<>>

Ptr(n) == <<n>>

\* /proc/meminfo: unreadable, or readable with or without the HugePages
\* lines. No pages are free unless some are configured.
Meminfos ==
    {m \in [ok : BOOLEAN, Total : {NilPtr, Ptr(0), Ptr(2)}, Free : {NilPtr, Ptr(0), Ptr(1)}] :
        /\ ~m.ok => m.Total = NilPtr /\ m.Free = NilPtr
        /\ m.Free = Ptr(1) => m.Total # Ptr(0)}

HpIdle ==
    /\ meminfo = [ok |-> FALSE, Total |-> NilPtr, Free |-> NilPtr]
    /\ procOk = FALSE
    /\ hfs = "nil"
    /\ hpc = "returned"
    /\ hctx = "live"
    /\ hret = <<>>
    /\ npolls = 0
    /\ nmem = 0

(***************************************************************************)
(* verifier.FileRemoval: no call of Verify.                                 *)
(***************************************************************************)
RmIdle ==
    /\ dirFiles = {}
    /\ pattern = <<>>
    /\ vpc = "returned"
    /\ matches = {}
    /\ watching = FALSE
    /\ events = <<>>
    /\ vctx = "live"
    /\ vret = <<>>
    /\ removed = {}
    /\ nfsops = 0

(***************************************************************************)
(* verifier.Run over mock verifiers: the errgroup and its derived context.  *)
(***************************************************************************)
\* No error.
Nil == <<>>

\* Delays of the mock verifiers and deadlines of the caller, in ticks: no
\* delay, or a delay that ends at, before or after the deadline.
Delays == {0, 1}

Deadlines == {1, 2}

\* mockVerifier: fails or not, after a delay during which it honors the context.
MockVerifiers == [shouldFail : BOOLEAN, delay : Delays]

\* The verifier lists of length n.
VerifierLists(n) == [1..n -> MockVerifiers]

\* mockVerifier.String(): the verifiers of a call are named by their position.
String(i) == <<"test", i>>

\* fmt.Errorf("%s: %w", prefix, err)
Errorf(prefix, err) == <<prefix>> \o err

\* No call of Run.
RunIdle ==
    /\ verifiers = <<>>
    /\ deadline = 0
    /\ clock = 0
    /\ ngo = 0
    /\ task = <<>>
    /\ gerr = Nil
    /\ gctx = "live"
    /\ runret = <<"running">>
    /\ failOrder = <<>>

\* Run is called with up to MaxVerifiers mock verifiers and a context that
\* expires at the deadline; errgroup.WithContext derives the group's context.
InitRun ==
    /\ MarkerIdle
    /\ FileIdle
    /\ OrchIdle
    /\ RmIdle
    /\ HpIdle
    /\ ClIdle
    /\ \E n \in 0..MaxVerifiers : verifiers \in VerifierLists(n)
    /\ deadline \in Deadlines
    /\ clock = 0
    /\ ngo = 0
    /\ task = [i \in 1..Len(verifiers) |-> [state |-> "new", due |-> 0, res |-> Nil]]
    /\ gerr = Nil
    /\ gctx = "live"
    /\ runret = <<"running">>
    /\ failOrder = <<>>

\* The verifiers see the caller's context, not the group's.
CtxDone_ParentOnly == clock >= deadline

\* ctx.Done() of the context Verify is called with: closed when the group
\* cancelled it or the caller's deadline passed.
CtxDone == gctx # "live"

\* ctx.Err()
CtxErr == IF gctx = "canceled" THEN <<"context canceled">>
          ELSE <<"context deadline exceeded">>

\* errOnce keeps the last error.
ErrOnce_Last(old, err) == IF err = Nil THEN old ELSE err

\* g.Go: the first non-nil error is kept.
ErrOnce(old, err) == IF old = Nil THEN err ELSE old

\* g.Go: the first non-nil error cancels the group's context.
Cancel(ctx, err) == IF err # Nil /\ ctx = "live" THEN "canceled" ELSE ctx

\* Run swallows the group's error.
RunResult_Swallow(err) == Nil

\* Run: the result of g.Wait, wrapped when it is an error.
RunResult(err) ==
    IF err # Nil THEN Errorf("verification failed", err) ELSE Nil

\* The goroutine of verifier i ends with err as Verify's result.
TaskReturns(i, err) ==
    LET wrapped == IF err # Nil THEN Errorf(String(i), err) ELSE Nil
    IN  /\ task' = [task EXCEPT ![i].state = "done", ![i].res = err]
        /\ gerr' = ErrOnce(gerr, wrapped)
        /\ gctx' = Cancel(gctx, wrapped)
        /\ failOrder' = IF err # Nil THEN Append(failOrder, i) ELSE failOrder

\* mockVerifier.Verify past its delay: AnError or nil.
MockResult(v) == IF v.shouldFail THEN <<"assert.AnError">> ELSE Nil

\* Run's loop: g.Go launches the goroutine of the next verifier, which calls
\* Verify; a mock with a delay starts its timer.
RunGo ==
    /\ runret = <<"running">>
    /\ ngo < Len(verifiers)
    /\ ngo' = ngo + 1
    /\ task' = [task EXCEPT ![ngo + 1].state = "verifying",
                            ![ngo + 1].due = clock + verifiers[ngo + 1].delay]
    /\ UNCHANGED <<verifiers, deadline, clock, gerr, gctx, runret, failOrder>>
    /\ UNCHANGED runFrame

\* Time passes, as long as the deadline or a timer is still ahead; at the
\* deadline the caller's context expires and the group's context with it.
Tick ==
    /\ runret = <<"running">>
    /\ clock < MaxTime
    /\ \/ clock < deadline
       \/ \E i \in 1..Len(verifiers) :
             task[i].state = "new" \/ (task[i].state = "verifying" /\ clock < task[i].due)
    /\ clock' = clock + 1
    /\ gctx' = IF gctx = "live" /\ clock + 1 >= deadline THEN "deadline" ELSE gctx
    /\ UNCHANGED <<verifiers, deadline, ngo, task, gerr, runret, failOrder>>
    /\ UNCHANGED runFrame

\* mockVerifier.Verify returns on its timer (or at once without a delay), and
\* the goroutine ends.
VerifyTimer(i) ==
    /\ i \in 1..Len(verifiers)
    /\ task[i].state = "verifying"
    /\ clock >= task[i].due
    /\ TaskReturns(i, MockResult(verifiers[i]))
    /\ UNCHANGED <<verifiers, deadline, clock, ngo, runret>>
    /\ UNCHANGED runFrame

\* mockVerifier.Verify returns ctx.Err() from its select, and the goroutine
\* ends.
VerifyDone(i) ==
    /\ i \in 1..Len(verifiers)
    /\ task[i].state = "verifying"
    /\ verifiers[i].delay > 0
    /\ CtxDone
    /\ TaskReturns(i, CtxErr)
    /\ UNCHANGED <<verifiers, deadline, clock, ngo, runret>>
    /\ UNCHANGED runFrame

\* Run: g.Wait returns when every goroutine has ended; Run returns.
RunWait ==
    /\ runret = <<"running">>
    /\ ngo = Len(verifiers)
    /\ \A i \in 1..Len(verifiers) : task[i].state = "done"
    /\ runret' = RunResult(gerr)
    /\ gctx' = IF gctx = "live" THEN "canceled" ELSE gctx
    /\ UNCHANGED <<verifiers, deadline, clock, ngo, task, gerr, failOrder>>
    /\ UNCHANGED runFrame

NextRun ==
    \/ RunGo
    \/ Tick
    \/ \E i \in 1..MaxVerifiers : VerifyTimer(i) \/ VerifyDone(i)
    \/ RunWait

(***************************************************************************)
(* verifier.FileRemoval: Verify waits until a file matching the pattern is  *)
(* removed from the pattern's directory. A file name is the sequence of its *)
(* dot-separated parts; a "*" of the pattern stands for one part.           *)
(***************************************************************************)
Files == {<<"test", "txt">>, <<"test", "12345", "log">>,
          <<"test", "678", "log">>, <<"other", "log">>}

\* An exact path and a glob, as in the tests.
Patterns == {<<"test", "txt">>, <<"test", "*", "log">>}

\* filepath.Match(pattern, name)
Match(pat, name) ==
    /\ Len(pat) = Len(name)
    /\ \A i \in 1..Len(pat) : pat[i] = "*" \/ pat[i] = name[i]

\* filepath.Glob(pattern): the files of the directory the pattern matches.
Glob(pat, dir) == {f \in dir : Match(pat, f)}

\* fsnotify.Event
Event(op, name) == [Op |-> op, Name |-> name]

\* The kernel queues a notification for the watchers subscribed at the time
\* of the change, and for no other.
Notify(q, w, e) == IF w THEN Append(q, e) ELSE q

\* Verify subscribes whatever Glob returned.
AfterGlob_AlwaysWatch(m) == "watch"

\* Verify: len(matches) == 0 ends the call, anything else goes on to subscribe.
AfterGlob(m) == IF m = {} THEN "returned" ELSE "watch"

\* Every end of the context is reported as a deadline.
VerifyCtxErr_AlwaysDeadline == <<"context deadline exceeded">>

\* ctx.Err() of the context Verify was called with.
VerifyCtxErr == IF vctx = "canceled" THEN <<"context canceled">>
                ELSE <<"context deadline exceeded">>

\* Verify returns: the deferred watcher.Close() ends the subscription.
VerifyReturns(err) ==
    /\ vret' = err
    /\ vpc' = "returned"
    /\ watching' = FALSE
    /\ events' = <<>>

\* Verify is called on a directory holding any of the files, with a live
\* context.
InitRm ==
    /\ MarkerIdle
    /\ FileIdle
    /\ OrchIdle
    /\ RunIdle
    /\ HpIdle
    /\ ClIdle
    /\ dirFiles \in SUBSET Files
    /\ pattern \in Patterns
    /\ vpc = "glob"
    /\ matches = {}
    /\ watching = FALSE
    /\ events = <<>>
    /\ vctx = "live"
    /\ vret = <<"running">>
    /\ removed = {}
    /\ nfsops = 0

\* Verify: filepath.Glob; no match means the files are already removed.
VGlob ==
    /\ vpc = "glob"
    /\ matches' = Glob(pattern, dirFiles)
    /\ IF AfterGlob(matches') = "returned"
       THEN VerifyReturns(Nil)
       ELSE /\ vpc' = "watch"
            /\ UNCHANGED <<watching, events, vret>>
    /\ UNCHANGED <<dirFiles, pattern, vctx, removed, nfsops>>
    /\ UNCHANGED rmFrame

\* Verify: fsnotify.NewWatcher and watcher.Add(dir), which may fail.
VWatch ==
    /\ vpc = "watch"
    /\ \E addErr \in BOOLEAN :
        IF addErr
        THEN VerifyReturns(Errorf("failed to watch directory", <<"add failed">>))
        ELSE /\ watching' = TRUE
             /\ vpc' = "select"
             /\ UNCHANGED <<events, vret>>
    /\ UNCHANGED <<dirFiles, pattern, matches, vctx, removed, nfsops>>
    /\ UNCHANGED rmFrame

\* Verify: the select receives from watcher.Events; the removal of a file the
\* pattern matches ends the wait, any other event is dropped.
VEvent ==
    /\ vpc = "select"
    /\ events # <<>>
    /\ LET event == Head(events) IN
       IF event.Op = "Remove" /\ Match(pattern, event.Name)
       THEN VerifyReturns(Nil)
       ELSE /\ events' = Tail(events)
            /\ UNCHANGED <<vpc, watching, vret>>
    /\ UNCHANGED <<dirFiles, pattern, matches, vctx, removed, nfsops>>
    /\ UNCHANGED rmFrame

\* Verify: the select receives from ctx.Done().
VCtxDone ==
    /\ vpc = "select"
    /\ vctx # "live"
    /\ VerifyReturns(Errorf("timeout waiting for file_removal", VerifyCtxErr))
    /\ UNCHANGED <<dirFiles, pattern, matches, vctx, removed, nfsops>>
    /\ UNCHANGED rmFrame

\* Another process removes a file of the directory.
FsRemove(f) ==
    /\ vpc # "returned"
    /\ nfsops < MaxFsOps
    /\ f \in dirFiles
    /\ dirFiles' = dirFiles \ {f}
    /\ events' = Notify(events, watching, Event("Remove", f))
    /\ removed' = IF f \in matches /\ vctx = "live" THEN removed \cup {f} ELSE removed
    /\ nfsops' = nfsops + 1
    /\ UNCHANGED <<pattern, vpc, matches, watching, vctx, vret>>
    /\ UNCHANGED rmFrame

\* Another process creates a file in the directory.
FsCreate(f) ==
    /\ vpc # "returned"
    /\ nfsops < MaxFsOps
    /\ f \notin dirFiles
    /\ dirFiles' = dirFiles \cup {f}
    /\ events' = Notify(events, watching, Event("Create", f))
    /\ nfsops' = nfsops + 1
    /\ UNCHANGED <<pattern, vpc, matches, watching, vctx, vret, removed>>
    /\ UNCHANGED rmFrame

\* The context of the call ends: its deadline passes or the caller cancels.
CtxEnds ==
    /\ vpc # "returned"
    /\ vctx = "live"
    /\ vctx' \in {"deadline", "canceled"}
    /\ UNCHANGED <<dirFiles, pattern, vpc, matches, watching, events, vret, removed, nfsops>>
    /\ UNCHANGED rmFrame

NextRm ==
    \/ VGlob
    \/ VWatch
    \/ VEvent
    \/ VCtxDone
    \/ \E f \in Files : FsRemove(f) \/ FsCreate(f)
    \/ CtxEnds

(***************************************************************************)
(* verifier.HugePages: Verify polls /proc/meminfo on a ticker until free    *)
(* hugepages are reported.                                                  *)
(***************************************************************************)
\* Verify: free hugepages only.
Freed_FreeOnly(m) == m.Free # NilPtr /\ m.Free[1] > 0

\* Verify: free hugepages are reported, or no hugepages are configured.
Freed(m) ==
    \/ m.Free # NilPtr /\ m.Free[1] > 0
    \/ m.Total # NilPtr /\ m.Total[1] = 0

\* Missing telemetry is reported to the caller.
NoTelemetry_Error(err) == err

\* Verify: procfs cannot be opened or meminfo cannot be read: logged, nil.
NoTelemetry(err) == Nil

\* Every end of the context is returned as ctx.Err().
OnCtxDone_Propagate(c) ==
    IF c = "deadline" THEN <<"context deadline exceeded">> ELSE <<"context canceled">>

\* Verify: case <-ctx.Done(): a deadline is nil, anything else is ctx.Err().
OnCtxDone(c) == IF c = "deadline" THEN Nil ELSE <<"context canceled">>

HpReturns(err) ==
    /\ hret' = err
    /\ hpc' = "returned"

\* Verify is called, with or without a procfs.FS, on a machine with any
\* telemetry, with a live context.
InitHp ==
    /\ MarkerIdle
    /\ FileIdle
    /\ OrchIdle
    /\ RunIdle
    /\ RmIdle
    /\ ClIdle
    /\ meminfo \in Meminfos
    /\ procOk \in BOOLEAN
    /\ hfs \in {"nil", "set"}
    /\ hpc = "call"
    /\ hctx = "live"
    /\ hret = <<"running">>
    /\ npolls = 0
    /\ nmem = 0

\* Verify: without a procfs.FS, procfs.NewDefaultFS; then the ticker starts.
HpOpen ==
    /\ hpc = "call"
    /\ IF hfs = "nil" /\ ~procOk
       THEN /\ HpReturns(NoTelemetry(<<"could not read /proc">>))
            /\ UNCHANGED hfs
       ELSE /\ hfs' = "set"
            /\ hpc' = "poll"
            /\ UNCHANGED hret
    /\ UNCHANGED <<meminfo, procOk, hctx, npolls, nmem>>
    /\ UNCHANGED hpFrame

\* Verify: case <-ticker.C: one poll of meminfo.
HpTick ==
    /\ hpc = "poll"
    /\ npolls < MaxPolls
    /\ npolls' = npolls + 1
    /\ IF ~meminfo.ok
       THEN HpReturns(NoTelemetry(<<"cannot read meminfo">>))
       ELSE IF Freed(meminfo)
            THEN HpReturns(Nil)
            ELSE UNCHANGED <<hpc, hret>>
    /\ UNCHANGED <<meminfo, procOk, hfs, hctx, nmem>>
    /\ UNCHANGED hpFrame

\* Verify: case <-ctx.Done()
HpCtxDone ==
    /\ hpc = "poll"
    /\ hctx # "live"
    /\ HpReturns(OnCtxDone(hctx))
    /\ UNCHANGED <<meminfo, procOk, hfs, hctx, npolls, nmem>>
    /\ UNCHANGED hpFrame

\* The telemetry changes: pages are freed or taken, meminfo disappears.
MemChange ==
    /\ hpc # "returned"
    /\ nmem < MaxMemChanges
    /\ meminfo' \in Meminfos \ {meminfo}
    /\ nmem' = nmem + 1
    /\ UNCHANGED <<procOk, hfs, hpc, hctx, hret, npolls>>
    /\ UNCHANGED hpFrame

\* The context of the call ends: its deadline passes or the caller cancels.
HpCtxEnds ==
    /\ hpc # "returned"
    /\ hctx = "live"
    /\ hctx' \in {"deadline", "canceled"}
    /\ UNCHANGED <<meminfo, procOk, hfs, hpc, hret, npolls, nmem>>
    /\ UNCHANGED hpFrame

NextHp ==
    \/ HpOpen
    \/ HpTick
    \/ HpCtxDone
    \/ MemChange
    \/ HpCtxEnds

(***************************************************************************)
(* verifier.Run over the two verifiers of the handoff, FileRemoval(pattern) *)
(* and HugePages(): both goroutines run on the group's context.             *)
(***************************************************************************)
\* v.String() of the verifiers, by position.
VerifierString(i) == IF i = 1 THEN "file_removal" ELSE "hugepages"

\* The files the patterns can match.
Matchable == {f \in Files : \E pat \in Patterns : Match(pat, f)}

\* Run(ctx, FileRemoval(pattern), HugePages()) has launched both goroutines;
\* the telemetry stays as it is during the call.
InitRunSet ==
    /\ MarkerIdle
    /\ FileIdle
    /\ OrchIdle
    /\ ClIdle
    /\ verifiers = <<>>
    /\ deadline = 0
    /\ clock = 0
    /\ ngo = 2
    /\ task = [i \in 1..2 |-> [state |-> "verifying", due |-> 0, res |-> Nil]]
    /\ gerr = Nil
    /\ gctx = "live"
    /\ runret = <<"running">>
    /\ failOrder = <<>>
    /\ dirFiles \in SUBSET Matchable
    /\ pattern \in Patterns
    /\ vpc = "glob"
    /\ matches = {}
    /\ watching = FALSE
    /\ events = <<>>
    /\ vctx = "live"
    /\ vret = <<"running">>
    /\ removed = {}
    /\ nfsops = 0
    /\ meminfo \in Meminfos
    /\ procOk \in BOOLEAN
    /\ hfs = "nil"
    /\ hpc = "call"
    /\ hctx = "live"
    /\ hret = <<"running">>
    /\ npolls = 0
    /\ nmem = 0

\* The group's context is the context of both calls of Verify.
SetCtx(c) ==
    /\ gctx' = c
    /\ vctx' = c
    /\ hctx' = c

\* The caller's context ends, and the group's context with it.
SetCtxEnds ==
    /\ runret = <<"running">>
    /\ gctx = "live"
    /\ \E c \in {"deadline", "canceled"} : SetCtx(c)
    /\ UNCHANGED <<verifiers, deadline, clock, ngo, task, gerr, runret, failOrder>>
    /\ UNCHANGED <<dirFiles, pattern, vpc, matches, watching, events, vret, removed, nfsops>>
    /\ UNCHANGED <<meminfo, procOk, hfs, hpc, hret, npolls, nmem>>
    /\ UNCHANGED <<sqlVars, fileVars, orchVars, txVars, clVars>>

\* The goroutine of verifier i ends after its Verify returned: the error is
\* wrapped with the verifier's name, the first one is kept and cancels the
\* group's context.
SetGoReturns(i) ==
    /\ task[i].state = "verifying"
    /\ IF i = 1 THEN vpc = "returned" ELSE hpc = "returned"
    /\ LET err == IF i = 1 THEN vret ELSE hret
           wrapped == IF err # Nil THEN Errorf(VerifierString(i), err) ELSE Nil
       IN  /\ task' = [task EXCEPT ![i].state = "done", ![i].res = err]
           /\ gerr' = ErrOnce(gerr, wrapped)
           /\ SetCtx(Cancel(gctx, wrapped))
           /\ failOrder' = IF err # Nil THEN Append(failOrder, i) ELSE failOrder
    /\ UNCHANGED <<verifiers, deadline, clock, ngo, runret>>
    /\ UNCHANGED <<dirFiles, pattern, vpc, matches, watching, events, vret, removed, nfsops>>
    /\ UNCHANGED <<meminfo, procOk, hfs, hpc, hret, npolls, nmem>>
    /\ UNCHANGED <<sqlVars, fileVars, orchVars, txVars, clVars>>

\* Run: g.Wait returns when both goroutines have ended; Run returns.
SetWait ==
    /\ runret = <<"running">>
    /\ \A i \in 1..2 : task[i].state = "done"
    /\ runret' = RunResult(gerr)
    /\ SetCtx(IF gctx = "live" THEN "canceled" ELSE gctx)
    /\ UNCHANGED <<verifiers, deadline, clock, ngo, task, gerr, failOrder>>
    /\ UNCHANGED <<dirFiles, pattern, vpc, matches, watching, events, vret, removed, nfsops>>
    /\ UNCHANGED <<meminfo, procOk, hfs, hpc, hret, npolls, nmem>>
    /\ UNCHANGED <<sqlVars, fileVars, orchVars, txVars, clVars>>

NextRunSet ==
    \/ VGlob
    \/ VWatch
    \/ VEvent
    \/ VCtxDone
    \/ \E f \in Files : FsRemove(f)
    \/ HpOpen
    \/ HpTick
    \/ HpCtxDone
    \/ SetCtxEnds
    \/ \E i \in 1..2 : SetGoReturns(i)
    \/ SetWait

\* Pod "a" has claimed and exec'd the daemon, which runs: its pid file and its
\* control socket are in the runtime directory. No other pod has started.
InitOrch ==
    /\ table = {HistoryEntry(1, "a")}
    /\ seq = 1
    /\ open = [p \in Pods |-> FALSE]
    /\ pc = [p \in Pods |-> "idle"]
    /\ ret = Ret(NoOwner, "none")
    /\ lastClaim = NoOwner
    /\ nclaims = 0
    /\ restarted = FALSE
    /\ lastSeq = LatestOf(table)
    /\ split = {}
    /\ scen = ScenOff
    /\ txn = NoTxn
    /\ FileIdle
    /\ RunIdle
    /\ RmIdle
    /\ HpIdle
    /\ ClIdle
    /\ opc = [p \in Pods |-> IF p = "a" THEN "daemon" ELSE "off"]
    /\ dstate = [p \in Pods |-> IF p = "a" THEN "running" ELSE "none"]
    /\ pidfile = "a"
    /\ ctl = {"a"}
    /\ conn = [p \in Pods |-> NoOwner]
    /\ passed = [p \in Pods |-> "no"]
    /\ raced = {}
    /\ nstarts = 0
    /\ checked = [p \in Pods |-> Ret(p, "none")]
    /\ trace = [p \in Pods |-> <<>>]

\* A daemon answers on its control socket.
Listening(d) == d \in ctl /\ dstate[d] = "running"

\* A daemon's control socket accepts connections: the daemon answers, or it
\* hangs with its socket open.
Accepts(d) == d \in ctl /\ dstate[d] \in {"running", "hung"}

\* The peer of a connection holds it open and never answers.
Silent(d) == d \in ctl /\ dstate[d] = "hung"

\* CheckSuccession returned (true, false, nil): with or without a running peer.
Pass == IF \E d \in Pods : dstate[d] = "running" THEN "peer" ELSE "alone"

\* Runs that passed CheckSuccession and have not called Claim yet.
Waiting ==
    {q \in Pods : passed[q] = "peer"
                  /\ opc[q] \in {"dial", "version", "claim", "claimNoPeer"}}

\* One operation of a run of main with its outcome.
Did(op, out) == [op |-> op, out |-> out]

\* The run of pod p goes to position next having done operation d.
Goes(p, next, d) ==
    /\ opc' = [opc EXCEPT ![p] = next]
    /\ trace' = [trace EXCEPT ![p] = Append(@, d)]

\* main without the fail-open: the verdict is used as returned.
AfterCheck_FailClosed(v) ==
    IF v.isReplaced THEN "exit0"
    ELSE IF ~v.shouldProceed THEN "exit1"
    ELSE "dial"

\* main that never steps aside.
AfterCheck_NoStepAside(v) == "dial"

\* main, after CheckSuccession returned v: an error is logged and taken as
\* proceed; a replaced instance exits with status 0; no leave to proceed exits
\* with status 1; otherwise DialBinary follows.
AfterCheck(v) ==
    LET shouldProceed == IF v.err # "nil" THEN TRUE ELSE v.shouldProceed
    IN  IF v.isReplaced THEN "exit0"
        ELSE IF ~shouldProceed THEN "exit1"
        ELSE "dial"

\* main that only logs a failed call to the peer.
AfterCall_WarnOnly(failed, next) == next

\* main, after a call to the peer: an error exits with status 1.
AfterCall(failed, next) == IF failed THEN "exit1" ELSE next

\* CheckSuccession returns v to main.
OCheckReturns(p, v) ==
    /\ checked' = [checked EXCEPT ![p] = v]
    /\ Goes(p, AfterCheck(v), Did("check", IF v.err = "nil" THEN "ok" ELSE "err"))
    /\ passed' = [passed EXCEPT ![p] =
                     IF v.err = "nil" /\ v.shouldProceed THEN Pass ELSE @]

\* The container of pod p starts main: flags, POD_NAME, succession.New, whose
\* failure exits with status 1.
OStart(p) ==
    /\ \/ opc[p] \in {"off", "exit0", "exit1"}
       \/ opc[p] = "daemon" /\ dstate[p] = "gone"
    /\ nstarts < MaxStarts
    /\ nstarts' = nstarts + 1
    /\ \E newErr \in BOOLEAN :
          /\ opc' = [opc EXCEPT ![p] = IF newErr THEN "exit1" ELSE "check"]
          /\ trace' = [trace EXCEPT ![p] = <<Did("new", IF newErr THEN "err" ELSE "ok")>>]
          /\ table' = IF newErr THEN table ELSE AutoMigrate(table)
    /\ dstate' = [dstate EXCEPT ![p] = "none"]
    /\ conn' = [conn EXCEPT ![p] = NoOwner]
    /\ passed' = [passed EXCEPT ![p] = "no"]
    /\ checked' = [checked EXCEPT ![p] = Ret(p, "none")]
    /\ UNCHANGED <<seq, markerAux, pidfile, ctl, raced>>
    /\ UNCHANGED orchFrame

\* main, CheckSuccession's first query. An error of the store, no owner or own
\* identity: CheckSuccession returns. Another owner leads to the second query.
OCheckCurrentOwner(p) ==
    /\ opc[p] = "check"
    /\ \E storeErr \in BOOLEAN :
          LET r == IF storeErr
                   THEN [owner |-> NoOwner, err |-> "failed to get current owner"]
                   ELSE CurrentOwner(table)
          IN  IF r.err # "nil"
              THEN OCheckReturns(p, [Verdict(p, FALSE, FALSE) EXCEPT !.err = r.err])
              ELSE IF r.owner = NoOwner \/ r.owner = p
              THEN OCheckReturns(p, Verdict(p, TRUE, FALSE))
              ELSE /\ opc' = [opc EXCEPT ![p] = "wasOwner"]
                   /\ UNCHANGED <<passed, checked, trace>>
    /\ UNCHANGED <<dstate, pidfile, ctl, conn, raced, nstarts>>
    /\ UNCHANGED <<sqlVars, orchFrame>>

\* main, CheckSuccession's second query, after which CheckSuccession returns:
\* an error of the store, or whether this identity owned before. The replaced
\* instance reads CurrentOwner and GetHistory for its log lines.
OCheckWasOwner(p) ==
    /\ opc[p] = "wasOwner"
    /\ \E storeErr \in BOOLEAN :
          IF storeErr
          THEN OCheckReturns(p, [Verdict(p, FALSE, FALSE)
                                 EXCEPT !.err = "failed to check history"])
          ELSE LET wasOwner == WasOwner(table, p)
               IN  OCheckReturns(p, Verdict(p, ~wasOwner, wasOwner))
    /\ UNCHANGED <<dstate, pidfile, ctl, conn, raced, nstarts>>
    /\ UNCHANGED <<sqlVars, orchFrame>>

\* What os.ReadFile and Sscanf can meet in a pid file that exists: a pid, a
\* file that cannot be read, content that is no number.
PidDamage == {"none", "unreadable", "unparseable"}

\* A DialBinary that takes a pid file whose socket cannot be dialed for no pid
\* file at all.
DialBinary_StaleAsAbsent(pf, damage, listens) ==
    IF pf = NoOwner \/ (damage = "none" /\ ~listens)
    THEN [err |-> "ErrNoPidFile", peer |-> NoOwner]
    ELSE IF damage = "unreadable" THEN [err |-> "failed to read pid file", peer |-> NoOwner]
    ELSE IF damage = "unparseable" THEN [err |-> "failed to parse pid", peer |-> NoOwner]
    ELSE [err |-> "nil", peer |-> pf]

\* appctl.DialBinary: no pid file is ErrNoPidFile; a pid file that cannot be
\* read or parsed is an error of its own; otherwise the control socket named
\* by the pid is dialed, which fails when nothing listens there.
DialBinary(pf, damage, listens) ==
    IF pf = NoOwner THEN [err |-> "ErrNoPidFile", peer |-> NoOwner]
    ELSE IF damage = "unreadable" THEN [err |-> "failed to read pid file", peer |-> NoOwner]
    ELSE IF damage = "unparseable" THEN [err |-> "failed to parse pid", peer |-> NoOwner]
    ELSE IF listens THEN [err |-> "nil", peer |-> pf]
    ELSE [err |-> "connect: no such file or directory", peer |-> NoOwner]

\* main that takes every error of DialBinary as "no existing process".
AfterDial_AnyError(err) == IF err = "nil" THEN "version" ELSE "claimNoPeer"

\* main, the switch on DialBinary's error: ErrNoPidFile leads to Claim and the
\* exec, any other error exits with status 1, a client leads to the calls.
AfterDial(err) ==
    IF err = "ErrNoPidFile" THEN "claimNoPeer"
    ELSE IF err # "nil" THEN "exit1"
    ELSE "version"

\* The outcome of DialBinary as the run's trace records it.
DialOut(err) ==
    IF err = "ErrNoPidFile" THEN "nopid"
    ELSE IF err = "nil" THEN "ok"
    ELSE IF err = "failed to read pid file" THEN "readerr"
    ELSE IF err = "failed to parse pid" THEN "parseerr"
    ELSE "err"

\* main: appctl.DialBinary and the switch on its error.
ODial(p) ==
    /\ opc[p] = "dial"
    /\ \E damage \in PidDamage :
          LET r == DialBinary(pidfile, damage, Accepts(pidfile))
          IN  /\ Goes(p, AfterDial(r.err), Did("dial", DialOut(r.err)))
              /\ conn' = [conn EXCEPT ![p] = r.peer]
    /\ UNCHANGED <<dstate, pidfile, ctl, passed, raced, nstarts, checked>>
    /\ UNCHANGED <<sqlVars, orchFrame>>

\* main: client.CallWithContext(context.TODO(), "version") returns. The call
\* fails when the connection breaks or the peer is gone; it does not return
\* while the peer holds the connection and stays silent.
OVersionIO(p, ioErr) ==
    /\ opc[p] = "version"
    /\ ioErr \/ ~Silent(conn[p])
    /\ LET failed == ioErr \/ ~Listening(conn[p])
       IN  Goes(p, AfterCall(failed, "claim"),
                Did("version", IF failed THEN "err" ELSE "ok"))
    /\ UNCHANGED <<dstate, pidfile, ctl, conn, passed, raced, nstarts, checked>>
    /\ UNCHANGED <<sqlVars, orchFrame>>

\* main: the version query, with or without a broken connection.
OVersion(p) == \E ioErr \in BOOLEAN : OVersionIO(p, ioErr)

\* main: marker.Claim, on either branch of the switch. A failure is only
\* logged; main goes on to the exit call or to the exec.
OClaim(p) ==
    /\ opc[p] \in {"claim", "claimNoPeer"}
    /\ \E storeErr \in BOOLEAN :
          /\ IF storeErr
             THEN UNCHANGED <<table, seq>>
             ELSE /\ table' = Create(table, seq, p)
                  /\ seq' = seq + 1
          /\ Goes(p, IF opc[p] = "claim" THEN "exitcall" ELSE "exec",
                  Did("claim", IF storeErr THEN "err" ELSE "ok"))
    /\ raced' = IF passed[p] = "peer"
                THEN raced \cup {{p, q} : q \in Waiting \ {p}}
                ELSE raced
    /\ UNCHANGED <<markerAux, dstate, pidfile, ctl, conn, passed, nstarts, checked>>
    /\ UNCHANGED orchFrame

\* main: client.CallWithContext(context.TODO(), "exit") returns. The daemon
\* acknowledges and begins to stop; a failed call exits with status 1; the
\* call does not return while the peer holds the connection and stays silent.
OExitCallIO(p, ioErr) ==
    /\ opc[p] = "exitcall"
    /\ ioErr \/ ~Silent(conn[p])
    /\ LET failed == ioErr \/ ~Listening(conn[p])
       IN  /\ Goes(p, AfterCall(failed, "exec"),
                   Did("exit", IF failed THEN "err" ELSE "ok"))
           /\ dstate' = IF failed THEN dstate
                        ELSE [dstate EXCEPT ![conn[p]] = "stopping"]
    /\ UNCHANGED <<pidfile, ctl, conn, passed, raced, nstarts, checked>>
    /\ UNCHANGED <<sqlVars, orchFrame>>

\* main: the exit request, with or without a broken connection.
OExitCall(p) == \E ioErr \in BOOLEAN : OExitCallIO(p, ioErr)

\* main: syscall.Exec replaces the orchestrator by the daemon.
OExec(p) ==
    /\ opc[p] = "exec"
    /\ Goes(p, "daemon", Did("exec", "ok"))
    /\ dstate' = [dstate EXCEPT ![p] = "starting"]
    /\ UNCHANGED <<pidfile, ctl, conn, passed, raced, nstarts, checked>>
    /\ UNCHANGED <<sqlVars, orchFrame>>

\* The started daemon writes <binary>.pid and listens on <binary>.<pid>.ctl.
DaemonPublish(d) ==
    /\ dstate[d] = "starting"
    /\ dstate' = [dstate EXCEPT ![d] = "running"]
    /\ pidfile' = d
    /\ ctl' = ctl \cup {d}
    /\ UNCHANGED <<opc, conn, passed, raced, nstarts, checked, trace>>
    /\ UNCHANGED <<sqlVars, orchFrame>>

\* The running daemon hangs: it keeps its control socket open and answers no
\* request from here on.
DaemonHangs(d) ==
    /\ dstate[d] = "running"
    /\ dstate' = [dstate EXCEPT ![d] = "hung"]
    /\ UNCHANGED <<opc, pidfile, ctl, conn, passed, raced, nstarts, checked, trace>>
    /\ UNCHANGED <<sqlVars, orchFrame>>

\* The stopping daemon removes its control socket.
DaemonCloseCtl(d) ==
    /\ dstate[d] = "stopping"
    /\ dstate' = [dstate EXCEPT ![d] = "closed"]
    /\ ctl' = ctl \ {d}
    /\ UNCHANGED <<opc, pidfile, conn, passed, raced, nstarts, checked, trace>>
    /\ UNCHANGED <<sqlVars, orchFrame>>

\* The stopping daemon removes its pid file and is gone.
DaemonRemovePid(d) ==
    /\ dstate[d] = "closed"
    /\ dstate' = [dstate EXCEPT ![d] = "gone"]
    /\ pidfile' = IF pidfile = d THEN NoOwner ELSE pidfile
    /\ UNCHANGED <<opc, ctl, conn, passed, raced, nstarts, checked, trace>>
    /\ UNCHANGED <<sqlVars, orchFrame>>

(***************************************************************************)
(* appctl.Cleanup on the runtime directory, one system call per step, next  *)
(* to a stopping daemon that removes its own files, followed by DialBinary. *)
(***************************************************************************)
\* The part of the orchestrator's state that Cleanup leaves alone.
orchRest == <<opc, dstate, conn, passed, raced, nstarts, checked, trace>>

\* os.Remove fails whenever the file is absent, too.
RemoveFailed_Strict(exists, fail) == ~exists \/ fail

\* Cleanup: the error of os.Remove counts unless it is os.IsNotExist.
RemoveFailed(exists, fail) == exists /\ fail

\* Cleanup returns err.
CleanupReturns(err) ==
    /\ crets' = Append(crets, err)
    /\ cpc' = "idle"
    /\ cmatches' = {}

\* The runtime directory holds any pid file and any stale control sockets; no
\* daemon runs.
InitCleanup ==
    /\ MarkerIdle
    /\ FileIdle
    /\ RunIdle
    /\ RmIdle
    /\ HpIdle
    /\ ClIdle
    /\ opc = [p \in Pods |-> "off"]
    /\ dstate = [p \in Pods |-> "none"]
    /\ pidfile \in Pods \cup {NoOwner}
    /\ ctl \in SUBSET Pods
    /\ conn = [p \in Pods |-> NoOwner]
    /\ passed = [p \in Pods |-> "no"]
    /\ raced = {}
    /\ nstarts = 0
    /\ checked = [p \in Pods |-> Ret(p, "none")]
    /\ trace = [p \in Pods |-> <<>>]

\* Cleanup is called.
CCall ==
    /\ cpc \in {"idle", "dialed"}
    /\ Len(crets) < MaxCleanups
    /\ cpc' = "pid"
    /\ cabsent' = (pidfile = NoOwner /\ ctl = {})
    /\ UNCHANGED <<cmatches, crets, dret, cremoved>>
    /\ UNCHANGED <<pidfile, ctl, orchRest>>
    /\ UNCHANGED clFrame

\* Cleanup: os.Remove of the pid file.
CRemovePid ==
    /\ cpc = "pid"
    /\ \E fail \in BOOLEAN :
          IF RemoveFailed(pidfile # NoOwner, fail)
          THEN /\ CleanupReturns(<<"failed to remove pid file">>)
               /\ UNCHANGED <<pidfile, cremoved>>
          ELSE /\ pidfile' = NoOwner
               /\ cremoved' = IF pidfile # NoOwner THEN cremoved + 1 ELSE cremoved
               /\ cpc' = "glob"
               /\ UNCHANGED <<cmatches, crets>>
    /\ UNCHANGED <<dret, cabsent>>
    /\ UNCHANGED <<ctl, orchRest>>
    /\ UNCHANGED clFrame

\* Cleanup: filepath.Glob of the control sockets.
CGlob ==
    /\ cpc = "glob"
    /\ cmatches' = ctl
    /\ cpc' = "remove"
    /\ UNCHANGED <<crets, dret, cabsent, cremoved>>
    /\ UNCHANGED <<pidfile, ctl, orchRest>>
    /\ UNCHANGED clFrame

\* Cleanup: os.Remove of the next match.
CRemoveCtl ==
    /\ cpc = "remove"
    /\ \E f \in cmatches, fail \in BOOLEAN :
          IF RemoveFailed(f \in ctl, fail)
          THEN /\ CleanupReturns(<<"failed to remove socket file">>)
               /\ UNCHANGED <<ctl, cremoved>>
          ELSE /\ ctl' = ctl \ {f}
               /\ cremoved' = IF f \in ctl THEN cremoved + 1 ELSE cremoved
               /\ cmatches' = cmatches \ {f}
               /\ UNCHANGED <<cpc, crets>>
    /\ UNCHANGED <<dret, cabsent>>
    /\ UNCHANGED <<pidfile, orchRest>>
    /\ UNCHANGED clFrame

\* Cleanup: every match is removed, return nil.
CReturn ==
    /\ cpc = "remove"
    /\ cmatches = {}
    /\ CleanupReturns(Nil)
    /\ UNCHANGED <<dret, cabsent, cremoved>>
    /\ UNCHANGED <<pidfile, ctl, orchRest>>
    /\ UNCHANGED clFrame

\* DialBinary is called after a Cleanup returned.
CDial ==
    /\ cpc = "idle"
    /\ crets # <<>>
    /\ \E damage \in PidDamage :
          dret' = DialBinary(pidfile, damage, Listening(pidfile)).err
    /\ cpc' = "dialed"
    /\ UNCHANGED <<cmatches, crets, cabsent, cremoved>>
    /\ UNCHANGED <<pidfile, ctl, orchRest>>
    /\ UNCHANGED clFrame

\* The daemon that is stopping removes one of its files.
CDaemonRemoves ==
    /\ cpc \notin {"idle", "dialed"}
    /\ \/ /\ pidfile # NoOwner
          /\ pidfile' = NoOwner
          /\ UNCHANGED ctl
       \/ /\ \E f \in ctl : ctl' = ctl \ {f}
          /\ UNCHANGED pidfile
    /\ UNCHANGED clVars
    /\ UNCHANGED orchRest
    /\ UNCHANGED clFrame

NextCleanup ==
    \/ CCall
    \/ CRemovePid
    \/ CGlob
    \/ CRemoveCtl
    \/ CReturn
    \/ CDial
    \/ CDaemonRemoves

(***************************************************************************)
(* The two stores side by side: the same calls, one after the other, on the *)
(* Marker of the SQLite store and on the Marker of the file store.          *)
(***************************************************************************)
\* CheckSuccession of the SQLite store, both queries.
SqlCheckSuccession(t, p) ==
    LET r == CurrentOwner(t)
    IN  IF r.err # "nil" THEN [Verdict(p, FALSE, FALSE) EXCEPT !.err = r.err]
        ELSE IF r.owner = NoOwner \/ r.owner = p THEN Verdict(p, TRUE, FALSE)
        ELSE Verdict(p, ~WasOwner(t, p), WasOwner(t, p))

\* A read call of the SQLite store.
SqlRead(t, p, op) ==
    IF op = "CheckSuccession" THEN SqlCheckSuccession(t, p)
    ELSE IF op = "CurrentOwner"
    THEN [Ret(p, op) EXCEPT !.owner = CurrentOwner(t).owner, !.err = CurrentOwner(t).err]
    ELSE [Ret(p, op) EXCEPT !.history = Owners(GetHistory(t))]

\* The content of the history file, which the flock of a call creates empty
\* when there is none.
FileContent == IF fpath = 0 THEN EmptyFile ELSE fnode[fpath]

\* Both stores are new.
InitBackends ==
    /\ MarkerIdle
    /\ FileIdle
    /\ OrchIdle
    /\ RunIdle
    /\ RmIdle
    /\ HpIdle
    /\ ClIdle

\* Identity p claims on both stores.
BothClaim(p) ==
    /\ nclaims < MaxClaims
    /\ table' = Create(table, seq, p)
    /\ seq' = seq + 1
    /\ ret' = Ret(p, "Claim")
    /\ lastClaim' = p
    /\ nclaims' = nclaims + 1
    /\ fnode' = Append(fnode, Encode(UpdateHistory(Decode(FileContent), p, fclock + 1)))
    /\ flocks' = Append(flocks, {})
    /\ fpath' = Len(fnode) + 1
    /\ fclock' = fclock + 1
    /\ fok' = [fok EXCEPT ![p] = @ + 1]
    /\ fclaims' = fclaims + 1
    /\ fret' = Ret(p, "Claim")
    /\ lastSeq' = [lastSeq EXCEPT ![p] = seq + 1]
    /\ UNCHANGED <<open, pc, restarted, split, scen, fproc, freads>>
    /\ UNCHANGED <<orchVars, txVars, runVars, rmVars, hpVars, clVars>>

\* Identity p makes the same read call on both stores.
BothRead(p, op) ==
    /\ ret' = SqlRead(table, p, op)
    /\ TouchLockFile
    /\ fret' = ReadResult(p, op, ReadDecode(FileContent))
    /\ UNCHANGED
          <<table, seq, open, pc, lastClaim, nclaims, restarted, lastSeq, split, scen>>
    /\ UNCHANGED <<fproc, fclock, fok, fclaims, freads>>
    /\ UNCHANGED <<orchVars, txVars, runVars, rmVars, hpVars, clVars>>

NextBackends ==
    \E p \in Pods :
        \/ BothClaim(p)
        \/ \E op \in ReadOps : BothRead(p, op)

Init == InitMarker /\ FileIdle /\ OrchIdle /\ RunIdle /\ RmIdle /\ HpIdle /\ ClIdle

InitFile == MarkerIdle /\ FileStart /\ OrchIdle /\ RunIdle /\ RmIdle /\ HpIdle /\ ClIdle

Next ==
    \E p \in Pods :
        \/ New(p)
        \/ Close(p)
        \/ CheckCurrentOwner(p)
        \/ CheckWasOwner(p)
        \/ Claim(p)
        \/ CallCurrentOwner(p)
        \/ CallGetHistory(p)

Spec == Init /\ [][Next]_vars

NextTx ==
    \E p \in Pods :
        \/ New(p)
        \/ Close(p)
        \/ CheckCurrentOwner(p)
        \/ CheckWasOwner(p)
        \/ CallCurrentOwner(p)
        \/ CallGetHistory(p)
        \/ TxCreate(p)
        \/ TxTrim(p)
        \/ TxCommit(p)
        \/ TxRollback(p)

SpecTx == Init /\ [][NextTx]_vars

NextFile ==
    \E p \in Pods :
        \/ FClaimOpen(p)
        \/ FClaimFlock(p)
        \/ FClaimRetry(p)
        \/ FClaimTimeout(p)
        \/ FClaimLoad(p)
        \/ FClaimReplace(p)
        \/ FClaimUnlock(p)

SpecFile == InitFile /\ [][NextFile]_vars

\* The file store with its read calls next to a bounded number of Claims.
NextFileRead ==
    \E p \in Pods :
        \/ FClaimOpen(p) /\ fclaims < MaxReadClaims
        \/ FClaimFlock(p)
        \/ FClaimRetry(p)
        \/ FClaimTimeout(p)
        \/ FClaimLoad(p)
        \/ FClaimReplace(p)
        \/ FClaimUnlock(p)
        \/ FReadOpen(p)
        \/ FReadFlock(p)
        \/ FReadRetry(p)
        \/ FReadTimeout(p)
        \/ FReadReturn(p)

SpecFileRead == InitFile /\ [][NextFileRead]_vars

NextOrch ==
    \E p \in Pods :
        \/ OStart(p)
        \/ OCheckCurrentOwner(p)
        \/ OCheckWasOwner(p)
        \/ ODial(p)
        \/ OVersion(p)
        \/ OClaim(p)
        \/ OExitCall(p)
        \/ OExec(p)
        \/ DaemonPublish(p)
        \/ DaemonCloseCtl(p)
        \/ DaemonRemovePid(p)

SpecOrch == InitOrch /\ [][NextOrch]_vars

\* main next to daemons that may hang.
NextOrchLive ==
    \/ NextOrch
    \/ \E d \in Pods : DaemonHangs(d)

\* Every step of main that can be taken is taken in the end: a call returns
\* when its answer or its failure is there. Nothing obliges a connection to
\* break, a daemon to run on, or a container to start.
FairOrch ==
    \A p \in Pods :
        /\ WF_vars(OCheckCurrentOwner(p))
        /\ WF_vars(OCheckWasOwner(p))
        /\ WF_vars(ODial(p))
        /\ WF_vars(OVersionIO(p, FALSE))
        /\ WF_vars(OClaim(p))
        /\ WF_vars(OExitCallIO(p, FALSE))
        /\ WF_vars(OExec(p))

SpecOrchLive == InitOrch /\ [][NextOrchLive]_vars /\ FairOrch

SpecRun == InitRun /\ [][NextRun]_vars

SpecRm == InitRm /\ [][NextRm]_vars

SpecHp == InitHp /\ [][NextHp]_vars

SpecRunSet == InitRunSet /\ [][NextRunSet]_vars

SpecCleanup == InitCleanup /\ [][NextCleanup]_vars

SpecBackends == InitBackends /\ [][NextBackends]_vars

(***************************************************************************)
(* Properties of the Marker API on the SQLite store.                        *)
(***************************************************************************)
\* The step is the return of a CheckSuccession call of marker p.
CheckReturns(p) ==
    /\ ret'.op = "CheckSuccession"
    /\ ret'.who = p
    /\ nclaims' = nclaims
    /\ open' = open
    /\ \/ CheckCurrentOwner(p) /\ pc'[p] = "idle"
       \/ CheckWasOwner(p)

\* Identity p owns some entry of log t.
InLog(t, p) == p \in {e.Owner : e \in t}

\* The owner of the entry of log t with the highest sequence number is p.
Newest(t, p) == \E e \in t : e.Owner = p /\ \A f \in t : f.ID <= e.ID

\* Identity A has a row in the log and B has a row newer than every row of A:
\* A claimed, then B claimed, and A's entry has not been trimmed away.
ClaimedThen(t, A, B) ==
    /\ InLog(t, A)
    /\ \E eb \in t : /\ eb.Owner = B
                     /\ \A ea \in t : ea.Owner = A => ea.ID < eb.ID

\* C2 (supersession): for distinct identities A and B, when A claimed, then B
\* claimed, and A's entry is still in the trimmed log, a CheckSuccession of A
\* returns shouldProceed = false, isReplaced = true, no error.
C2_Supersession ==
    [][\A A \in Pods, B \in Pods :
          (A # B /\ CheckReturns(A) /\ ClaimedThen(table, A, B))
              => ret' = Verdict(A, FALSE, TRUE)]_vars

\* A claimed and then B claimed during this run, on a log that has been
\* trimmed, and A's check has returned "replaced".
C2_Witness ==
    /\ ret = Verdict("a", FALSE, TRUE)
    /\ lastClaim = "b"
    /\ \E e \in table : e.Owner = "a" /\ e.ID > MAX_HISTORY
    /\ \A e \in table : e.ID > 1

\* C3 (first claimant): on a fresh store CheckSuccession of any identity
\* returns (true, false) without error, and once that identity has claimed,
\* CurrentOwner returns it.
C3_FirstClaimant ==
    [][\A p \in Pods :
          /\ (table = {} /\ CheckReturns(p)) => ret' = Verdict(p, TRUE, FALSE)
          /\ (table = {} /\ Claim(p))
                => /\ ret'.err = "nil"
                   /\ Newest(table', p)
          /\ (seq = 1 /\ CallCurrentOwner(p) /\ lastClaim = p)
                => (ret'.owner = p /\ ret'.err = "nil")]_vars

\* The store was fresh, one identity checked, claimed and asked for the owner.
C3_Witness ==
    /\ seq = 1
    /\ nclaims = 1
    /\ scen = 2
    /\ ret.op = "CurrentOwner"
    /\ ret.who = lastClaim
    /\ ret.owner = lastClaim

\* C4 (self-consistency): while an identity's Claim is the most recent one,
\* every CheckSuccession of that identity returns (true, false), whatever the
\* log held before the claim.
C4_SelfConsistency ==
    [][\A p \in Pods :
          (lastClaim = p /\ CheckReturns(p)) => ret' = Verdict(p, TRUE, FALSE)]_vars

\* An identity that had been superseded before claimed again during this run
\* and then checked.
C4_Witness ==
    /\ nclaims >= 2
    /\ ret = Verdict(lastClaim, TRUE, FALSE)
    /\ Cardinality({e \in table : e.Owner = lastClaim}) >= 2
    /\ \E e \in table : e.Owner # lastClaim

\* C5 (new challenger): when identity B appears nowhere in the log and another
\* identity is the current owner, CheckSuccession of B returns (true, false).
C5_NewChallenger ==
    [][\A B \in Pods :
          (/\ CheckReturns(B)
           /\ ~InLog(table, B)
           /\ \E A \in Pods \ {B} : Newest(table, A))
              => ret' = Verdict(B, TRUE, FALSE)]_vars

\* A check of an identity that is not in the log returned through the
\* membership query, with another identity as current owner.
C5_Witness ==
    /\ ret.op = "CheckSuccession"
    /\ ret.shouldProceed
    /\ ~ret.isReplaced
    /\ ~InLog(table, ret.who)
    /\ \E A \in Pods \ {ret.who} : Newest(table, A)
    /\ nclaims >= 1

\* C6 (rotation scenario): when a, b, c, a, b check and claim-if-proceed one
\* after the other on a fresh store, the verdicts are (true,false) three times,
\* then (false,true) twice, and the final history is exactly [c, b, a].
C6_RotationScenario ==
    /\ (scen \in {1, 3, 5})
          => (ret.op = "CheckSuccession"
                => ret = Verdict(Script[scen][2], TRUE, FALSE))
    /\ (scen \in {2, 4, 6}) => (ret.op = "Claim" => ret.err = "nil")
    /\ (scen \in {7, 8})
          => (ret.op = "CheckSuccession"
                => ret = Verdict(Script[scen][2], FALSE, TRUE))
    /\ (scen = 8) => Owners(GetHistory(table)) = <<"c", "b", "a">>
    /\ (scen = 8 /\ ret.op = "GetHistory") => ret.history = <<"c", "b", "a">>

\* The whole scenario has run and the history was read.
C6_Witness ==
    /\ scen = 8
    /\ ret.op = "GetHistory"
    /\ ret.history = <<"c", "b", "a">>

\* C7 (bounded history): after any number of Claim calls GetHistory returns at
\* most MAX_HISTORY entries and its first entry is the owner of the most
\* recent Claim.
C7_BoundedHistory ==
    LET h == GetHistory(table)
    IN  /\ Len(h) <= MAX_HISTORY
        /\ lastClaim # NoOwner => h[1].Owner = lastClaim
        /\ ret.op = "GetHistory"
              => /\ Len(ret.history) <= MAX_HISTORY
                 /\ ret.history = Owners(h)

\* More than MAX_HISTORY claims were made, rows were trimmed, and GetHistory
\* returned a full log headed by the last claimant.
C7_Witness ==
    /\ seq > MAX_HISTORY + 1
    /\ nclaims >= 2
    /\ ret.op = "GetHistory"
    /\ Len(ret.history) = MAX_HISTORY
    /\ ret.history[1] = lastClaim
    /\ \A e \in table : e.ID > seq - MAX_HISTORY

\* C8 (restart persistence): New and Close never change the log; a marker
\* opened anew by the identity of the most recent Claim sees CurrentOwner equal
\* to that identity, gets (true, false) from CheckSuccession and finds its
\* claim in GetHistory.
C8_RestartPersistence ==
    [][\A p \in Pods :
          /\ (New(p) \/ Close(p)) => (table' = table /\ seq' = seq)
          /\ (restarted /\ lastClaim = p /\ CallCurrentOwner(p))
                => (ret'.owner = p /\ ret'.err = "nil")
          /\ (restarted /\ lastClaim = p /\ CheckReturns(p))
                => ret' = Verdict(p, TRUE, FALSE)
          /\ (restarted /\ lastClaim = p /\ CallGetHistory(p))
                => \E i \in 1..Len(ret'.history) : ret'.history[i] = p]_vars

\* An identity claimed during this run, closed its marker, opened a new one
\* and read the history.
C8_Witness ==
    /\ restarted
    /\ nclaims >= 1
    /\ open[lastClaim]
    /\ ret.op = "GetHistory"
    /\ ret.who = lastClaim
    /\ ret.history[1] = lastClaim


(***************************************************************************)
(* Properties of Claim as a transaction.                                    *)
(***************************************************************************)
\* C11 (append and trim are one atomic step): what other connections can read
\* is never longer than MAX_HISTORY and never holds the row of a Claim that
\* has not committed; GetHistory, CurrentOwner and CheckSuccession calls that
\* return while a Claim's transaction is open return what the committed log
\* gives.
C11_AtomicAppendTrim ==
    /\ Cardinality(table) <= MAX_HISTORY
    /\ \A e \in table : e.ID <= seq
    /\ ret.op = "GetHistory" => Len(ret.history) <= MAX_HISTORY
    /\ (txn.owner # NoOwner /\ ret.op = "GetHistory")
          => (Len(ret.history) = (IF seq < MAX_HISTORY THEN seq ELSE MAX_HISTORY)
              /\ (ret.history # <<>> => ret.history[1] = lastClaim))
    /\ (txn.owner # NoOwner /\ ret.op = "CurrentOwner") => ret.owner = lastClaim
    /\ (txn.owner # NoOwner /\ ret.op = "CheckSuccession")
          => ret.shouldProceed = (lastClaim \in {NoOwner, ret.who}
                                  \/ ~InLog(table \ {HistoryEntry(seq + 1, txn.owner)}, ret.who))

\* A GetHistory call returned the full committed log while another marker's
\* transaction held one row more than the maximum.
C11_Witness ==
    /\ txn.step = "created"
    /\ Cardinality(txn.rows) = MAX_HISTORY + 1
    /\ ret.op = "GetHistory"
    /\ ret.who # txn.owner
    /\ Len(ret.history) = MAX_HISTORY

(***************************************************************************)
(* Properties of Marker.Claim on the file store.                            *)
(***************************************************************************)
\* C9 (Claim always adds an entry): with the log below capacity, the history a
\* Claim writes is one entry longer than the history it loaded, also when the
\* claimant is already the current owner.
C9_ClaimAddsEntry ==
    [][\A p \in Pods :
          (FClaimReplace(p) /\ Len(fproc[p].data.History) < FileMaxHistory)
              => Len(FileHistory') = Len(fproc[p].data.History) + 1]_vars

\* C10 (no lost updates): every Claim that returned nil has its identity's
\* entry in the log (the log is far below capacity, nothing is trimmed).
C10_NoLostUpdate ==
    \A p \in Pods :
        fok[p] > 0 => \E i \in 1..Len(FileHistory) : FileHistory[i].Owner = p

\* C12 (corruption recovery): a call that meets a history file that does not
\* parse behaves as on an empty log and returns no error: CheckSuccession
\* returns (true, false, nil), CurrentOwner no owner, GetHistory no entries,
\* and Claim writes a log that holds the claimant alone.
C12_CorruptionRecovery ==
    [][\A p \in Pods :
          /\ (FReadReturn(p) /\ fnode[fpath].kind = "corrupt")
                => fret' = (IF fproc[p].op = "CheckSuccession"
                            THEN Verdict(p, TRUE, FALSE)
                            ELSE Ret(p, fproc[p].op))
          /\ (FClaimLoad(p) /\ fnode[fpath].kind = "corrupt")
                => fproc'[p].data.History = <<>>]_vars

(***************************************************************************)
(* Properties of the orchestrator.                                          *)
(***************************************************************************)
\* The daemon that main of pod p exec'd is alive.
Active(p) == opc[p] = "daemon" /\ dstate[p] \in {"starting", "running"}

\* C1 (exactly one active owner): of two new instances that both passed
\* CheckSuccession while a peer was running, before either called Claim, at
\* most one reaches process replacement; their daemons are never alive at the
\* same time.
C1_OneActiveOwner ==
    \A p, q \in Pods :
        (p # q /\ {p, q} \in raced) => ~(Active(p) /\ Active(q))

\* A call of this run to its peer failed.
CallFailed(p) ==
    \E i \in 1..Len(trace[p]) :
        /\ trace[p][i].op \in {"dial", "version", "exit"}
        /\ trace[p][i].out \in {"err", "readerr", "parseerr"}

\* C13 (fail-open succession check): when CheckSuccession returns an error to
\* main, main goes on to peer discovery; a run whose check failed never exits
\* with status 0, and exits with status 1 only after a call to the peer failed.
C13_FailOpen ==
    [][\A p \in Pods :
          /\ (checked[p].err = "nil" /\ checked'[p].err # "nil")
                => (opc'[p] = "dial" /\ trace'[p][Len(trace'[p])] = Did("check", "err"))
          /\ checked'[p].err # "nil"
                => (opc'[p] # "exit0" /\ (opc'[p] = "exit1" => CallFailed(p)'))]_vars

\* A run whose CheckSuccession failed went through peer discovery and replaced
\* itself by the daemon.
C13_Witness ==
    \E p \in Pods :
        /\ checked[p].err # "nil"
        /\ Len(trace[p]) >= 3
        /\ trace[p][3].op = "dial"
        /\ Active(p)

\* C14 (fail-closed exit request): a run whose version query or exit request
\* to the discovered peer failed is at exit status 1, the failed call is the
\* last thing it did, and it has not replaced itself by the daemon.
C14_FailClosed ==
    \A p \in Pods :
        (\E i \in 1..Len(trace[p]) :
            trace[p][i].op \in {"version", "exit"} /\ trace[p][i].out = "err")
        => /\ opc[p] = "exit1"
           /\ trace[p][Len(trace[p])].out = "err"
           /\ trace[p][Len(trace[p])].op \in {"version", "exit"}
           /\ dstate[p] = "none"

\* The exit request of a run failed because the peer it had dialed was stopped
\* by another run; the run is at exit status 1.
C14_Witness ==
    \E p \in Pods :
        /\ opc[p] = "exit1"
        /\ trace[p][Len(trace[p])] = Did("exit", "err")
        /\ dstate[conn[p]] # "running"
        /\ \E q \in Pods \ {p} : Active(q)

\* C15 (handoff ordering): a run that found a running peer claims, then
\* requests the exit, and replaces itself by the daemon only when the peer has
\* released its resources (its control socket and pid file are removed, the
\* peer is gone), as the verifier set would confirm.
C15_HandoffOrdering ==
    [][\A p \in Pods :
          (OExec(p) /\ conn[p] # NoOwner)
              => /\ \E i, j \in 1..Len(trace[p]) :
                       /\ i < j
                       /\ trace[p][i].op = "claim"
                       /\ trace[p][j] = Did("exit", "ok")
                 /\ dstate[conn[p]] = "gone"]_vars

\* C16 (a superseded instance steps aside): a run to which CheckSuccession
\* returned isReplaced is at exit status 0 and has done nothing but open the
\* store and check; it has no connection and no daemon, and the step on which
\* the verdict came left the log, the daemons and the runtime directory as
\* they were.
C16_StepsAside ==
    [][\A p \in Pods :
          checked'[p].isReplaced
              => /\ opc'[p] = "exit0"
                 /\ trace'[p] = <<Did("new", "ok"), Did("check", "ok")>>
                 /\ conn'[p] = NoOwner
                 /\ dstate'[p] = "none"
                 /\ ~checked[p].isReplaced
                       => UNCHANGED <<table, seq, dstate, pidfile, ctl, conn>>]_vars

\* The first owner restarted after another pod took over, was told it is
\* replaced and exited with status 0 while the new owner's daemon lives.
C16_Witness ==
    \E p \in Pods :
        /\ checked[p].isReplaced
        /\ opc[p] = "exit0"
        /\ \E q \in Pods \ {p} : Active(q) /\ Newest(table, q)

(***************************************************************************)
(* Properties of verifier.Run.                                              *)
(***************************************************************************)
Returned == runret # <<"running">>

\* C17 (Run returns nil iff every Verify returned nil): once Run has returned,
\* its result is nil exactly when the result of every verifier is nil; so Run
\* without verifiers returns nil, and Run returns an error when a verifier
\* failed or returned the error of the expired context.
C17_RunNilIff ==
    Returned =>
        /\ (runret = Nil) <=> (\A i \in 1..Len(verifiers) : task[i].res = Nil)
        /\ Len(verifiers) = 0 => runret = Nil
        /\ (\E i \in 1..Len(verifiers) : task[i].res # Nil) => runret[1] = "verification failed"

\* Run returned an error: one verifier had returned nil, the other was still
\* waiting at the caller's deadline and returned the context's error.
C17_Witness ==
    /\ Returned
    /\ runret # Nil
    /\ \E i, j \in 1..Len(verifiers) :
          /\ task[i].res = <<"context deadline exceeded">>
          /\ task[j].res = Nil

\* C18 (fail-fast fan-out): from the moment a verifier has returned an error
\* the group's one context is cancelled, every verifier still waiting for its
\* delay can return at once, and a verifier returns "context canceled" only
\* after another one failed.
C18_FailFast ==
    /\ gerr # Nil => gctx # "live"
    /\ \A i \in 1..Len(verifiers) :
          /\ (failOrder # <<>> /\ task[i].state = "verifying" /\ verifiers[i].delay > 0)
                => ENABLED VerifyDone(i)
          /\ task[i].res = <<"context canceled">>
                => (failOrder # <<>> /\ failOrder[1] # i /\ gerr # Nil)

\* Run returned the failure of one verifier before the caller's deadline and
\* before the timer of its sibling, which returned on the cancelled context.
C18_Witness ==
    /\ Returned
    /\ runret # Nil
    /\ clock < deadline
    /\ \E i, j \in 1..Len(verifiers) :
          /\ task[i].res = <<"assert.AnError">>
          /\ task[j].res = <<"context canceled">>
          /\ clock < task[j].due

\* C19 (Run waits for all and returns the first failure): once Run has
\* returned every launched goroutine has ended, and when verifiers failed the
\* result is the error of the one that failed first, wrapped with that
\* verifier's name.
C19_WaitsFirstError ==
    Returned =>
        /\ ngo = Len(verifiers)
        /\ \A i \in 1..Len(verifiers) : task[i].state = "done"
        /\ failOrder # <<>> =>
              runret = <<"verification failed", String(failOrder[1])>>
                          \o task[failOrder[1]].res

\* Two verifiers failed, the second of the list first; Run returned its error.
C19_Witness ==
    /\ Returned
    /\ Len(failOrder) = 2
    /\ failOrder[1] = 2
    /\ runret = <<"verification failed", String(2), "assert.AnError">>
    /\ task[1].res # Nil


(***************************************************************************)
(* Properties of verifier.FileRemoval.                                      *)
(***************************************************************************)
\* A notification of the removal of a file the pattern matches waits in
\* watcher.Events.
PendingRemoval ==
    \E i \in 1..Len(events) : events[i].Op = "Remove" /\ Match(pattern, events[i].Name)

\* C20: if a file matching the pattern exists when Verify is called and is
\* removed at any later point while the context is live, also between the
\* existence check and the subscription to the directory, Verify returns nil:
\* it never ends its wait with an error after such a removal, unless the
\* notification of the removal was in watcher.Events at that moment (the
\* select then had both cases ready).
C20_RaceFree ==
    [][(vpc = "select" /\ vpc' = "returned" /\ removed # {})
         => (vret' = Nil \/ PendingRemoval)]_vars


\* C21: when no file of the directory matches the exact path or the glob at
\* the time of the call, Verify returns nil at once: its first step ends the
\* call with nil, and no watcher was subscribed.
C21_AlreadyRemoved ==
    [][(vpc = "glob" /\ Glob(pattern, dirFiles) = {} /\ vpc' # vpc)
         => (vpc' = "returned" /\ vret' = Nil /\ ~watching /\ ~watching')]_vars

\* Verify returned from its existence check on a directory without a match.
C21_Witness ==
    /\ pattern \in Patterns
    /\ vpc = "returned"
    /\ matches = {}
    /\ vret = Nil
    /\ ~watching

\* C22: the end of the context is a failure. While Verify waits and no removal
\* of a matching file was notified, Verify can return only once the context
\* ended, and then returns at once with the timeout error that wraps the
\* context's error: "context deadline exceeded" after a deadline, "context
\* canceled" after a cancellation; it never returns nil because of it.
C22_ContextEnds ==
    /\ [](vpc = "select" /\ vctx # "live" => ENABLED VCtxDone)
    /\ [][(vpc = "select" /\ vpc' = "returned" /\ ~PendingRemoval)
            => /\ vctx # "live"
               /\ vctx = "deadline" =>
                    vret' = <<"timeout waiting for file_removal", "context deadline exceeded">>
               /\ vctx = "canceled" =>
                    vret' = <<"timeout waiting for file_removal", "context canceled">>]_vars

\* Verify returned the cancellation error while the files it matched persist.
C22_Witness ==
    /\ vpc = "returned"
    /\ vctx = "canceled"
    /\ matches # {}
    /\ matches \subseteq dirFiles
    /\ removed = {}
    /\ vret = <<"timeout waiting for file_removal", "context canceled">>


(***************************************************************************)
(* Properties of verifier.HugePages.                                        *)
(***************************************************************************)
\* This step is a poll of meminfo by Verify.
Polls == hpc = "poll" /\ npolls' = npolls + 1

\* C23: a poll that reads HugePages_Total = 0 or HugePages_Free > 0 ends
\* Verify with nil; a poll that reads Total > 0 and Free = 0 leaves Verify
\* polling, so that it returns nil on the later poll that reads Free > 0.
C23_PollsUntilFree ==
    [][(Polls /\ meminfo.ok) =>
          /\ (meminfo.Total = Ptr(0) \/ (meminfo.Free # NilPtr /\ meminfo.Free[1] > 0))
                => (hpc' = "returned" /\ hret' = Nil)
          /\ (meminfo.Total # NilPtr /\ meminfo.Total[1] > 0 /\ meminfo.Free = Ptr(0))
                => (hpc' = "poll" /\ hret' = hret)]_vars

\* Verify returned nil on its second poll, which read free hugepages after
\* the telemetry had changed, with the context still live.
C23_Witness ==
    /\ hpc = "returned"
    /\ hret = Nil
    /\ npolls = 2
    /\ nmem >= 1
    /\ meminfo.Free = Ptr(1)
    /\ hctx = "live"

\* C24: missing telemetry is success: when the proc filesystem cannot be
\* opened at the call, or meminfo cannot be read on a poll, the first or a
\* later one, Verify returns nil.
C24_MissingTelemetry ==
    [][(\/ hpc = "call" /\ hfs = "nil" /\ ~procOk /\ hpc' # hpc
        \/ Polls /\ ~meminfo.ok)
         => (hpc' = "returned" /\ hret' = Nil)]_vars

\* Verify returned nil on its second poll, which could not read meminfo.
C24_Witness ==
    /\ hpc = "returned"
    /\ hret = Nil
    /\ npolls = 2
    /\ ~meminfo.ok

\* C25: when Verify of HugePages leaves its wait because the context ended,
\* it returns nil after a deadline and context.Canceled after a cancellation;
\* so a Run over FileRemoval and HugePages whose context ended by deadline
\* has nil as the result of HugePages, and when it fails, fails with the
\* error of FileRemoval only.
C25_DeadlineAsymmetry ==
    /\ [][(hpc = "poll" /\ hpc' = "returned" /\ npolls' = npolls) =>
            /\ hctx # "live"
            /\ hctx = "deadline" => hret' = Nil
            /\ hctx = "canceled" => hret' = <<"context canceled">>]_vars
    /\ [](Returned /\ gctx = "deadline" =>
            /\ task[2].res = Nil
            /\ runret # Nil =>
                 /\ failOrder = <<1>>
                 /\ runret = <<"verification failed", "file_removal">> \o task[1].res)

\* Run returned the timeout of FileRemoval; HugePages, which had polled and
\* found no free hugepages, left its wait at the deadline with nil.
C25_Witness ==
    /\ Returned
    /\ gctx = "deadline"
    /\ runret = <<"verification failed", "file_removal",
                  "timeout waiting for file_removal", "context deadline exceeded">>
    /\ task[2].res = Nil
    /\ npolls >= 1
    /\ meminfo.ok
    /\ meminfo.Free = Ptr(0)
    /\ meminfo.Total = Ptr(2)
    /\ nmem = 0


\* The run of pod p did operation d.
Done(p, d) == \E i \in 1..Len(trace[p]) : trace[p][i] = d

\* C26 (peer discovery): DialBinary returns ErrNoPidFile exactly when there is
\* no pid file; main takes that error, and no other, as "no running peer": it
\* claims and replaces itself by the daemon without a version query or an exit
\* request; a pid file that cannot be read or parsed gives another error, on
\* which main exits with status 1.
C26_PeerDiscovery ==
    /\ [][\A p \in Pods :
            (opc[p] = "dial" /\ opc'[p] # "dial") =>
                LET d == trace'[p][Len(trace'[p])]
                IN  /\ d.op = "dial"
                    /\ (d.out = "nopid") <=> (pidfile = NoOwner)
                    /\ (opc'[p] = "claimNoPeer") <=> (d.out = "nopid")
                    /\ d.out \in {"readerr", "parseerr", "err"} => opc'[p] = "exit1"]_vars
    /\ [](\A p \in Pods :
            Done(p, Did("dial", "nopid")) =>
                /\ opc[p] \in {"claimNoPeer", "exec", "daemon"}
                /\ conn[p] = NoOwner
                /\ \A i \in 1..Len(trace[p]) : trace[p][i].op \notin {"version", "exit"}
                /\ opc[p] = "daemon" =>
                     \E i \in 1..Len(trace[p]) : trace[p][i].op = "claim")

\* A run found no pid file, claimed and replaced itself by the daemon.
C26_Witness ==
    \E p \in Pods :
        /\ Done(p, Did("dial", "nopid"))
        /\ Done(p, Did("claim", "ok"))
        /\ opc[p] = "daemon"


(***************************************************************************)
(* Properties of appctl.Cleanup.                                            *)
(***************************************************************************)
\* C27: Cleanup is best-effort and idempotent. After a Cleanup returned nil
\* there is no pid file and no control socket, and the calls that follow
\* find it so: a Cleanup that begins with nothing to remove returns nil, so
\* every Cleanup after a successful one returns nil (and removes nothing),
\* and DialBinary after a successful Cleanup returns ErrNoPidFile.
C27_CleanupIdempotent ==
    /\ [](\A i \in 1..Len(crets) :
            crets[i] = Nil =>
                /\ pidfile = NoOwner
                /\ ctl = {}
                /\ \A j \in i..Len(crets) : crets[j] = Nil)
    /\ [][(Len(crets') = Len(crets) + 1 /\ cabsent) => crets'[Len(crets')] = Nil]_vars
    /\ []((cpc = "dialed" /\ crets[Len(crets)] = Nil) => dret = "ErrNoPidFile")

\* Cleanup removed a pid file and a control socket and returned nil, a second
\* Cleanup returned nil as well, and DialBinary then found no pid file.
C27_Witness ==
    /\ crets = <<Nil, Nil>>
    /\ cremoved >= 2
    /\ cpc = "dialed"
    /\ dret = "ErrNoPidFile"

(***************************************************************************)
(* Properties of the two stores taken together.                             *)
(***************************************************************************)
\* C28 (backend equivalence): after any sequence of Claims by any identities,
\* made on both stores, a read call returns the same on both: the same
\* CheckSuccession verdict, the same CurrentOwner, the same owners in the same
\* order from GetHistory, and an error on the one only with an error on the
\* other.
C28_BackendEquivalence ==
    (ret.op \in ReadOps /\ fret.op = ret.op /\ fret.who = ret.who) =>
        /\ fret.shouldProceed = ret.shouldProceed
        /\ fret.isReplaced = ret.isReplaced
        /\ fret.owner = ret.owner
        /\ fret.history = ret.history
        /\ (fret.err = "nil") <=> (ret.err = "nil")


(***************************************************************************)
(* Progress of the orchestrator.                                            *)
(***************************************************************************)
\* main of pod p has ended: in an exit or in the exec of the daemon.
Ended(p) == opc[p] \in {"exit0", "exit1", "daemon"}

\* C29 (bounded progress): every run of main ends, in the exec of the daemon or
\* in an exit, also when the running peer accepts the connection and never
\* answers.
C29_BoundedProgress ==
    \A p \in Pods : (opc[p] = "check") ~> Ended(p)


(***************************************************************************)
(* Order of the trim.                                                       *)
(***************************************************************************)
\* The first n elements of a sequence, all of them if it is shorter.
Head_n(h, n) == SubSeq(h, 1, IF Len(h) < n THEN Len(h) ELSE n)

\* A step is a successful Claim.
ClaimStep == nclaims' = nclaims + 1

\* C30 (oldest entries are trimmed first): after every successful Claim the log
\* is the new entry followed by the previous log, cut to its MAX_HISTORY
\* newest entries; the new entry is retained, and every removed entry is older
\* than every retained one.
C30_TrimOldestFirst ==
    [][ClaimStep =>
          LET new == HistoryEntry(seq', lastClaim')
              all == table \cup {new}
          IN  /\ seq' = seq + 1
              /\ \A e \in table : e.ID < new.ID
              /\ GetHistory(table')
                    = Head_n(<<new>> \o GetHistory(table), MAX_HISTORY)
              /\ new \in table'
              /\ table' \subseteq all
              /\ \A e \in all \ table' : \A f \in table' : e.ID < f.ID]_vars

\* A Claim on a full log has just returned: its entry is the newest, the log is
\* full, and the entry that was the oldest before the Claim is gone.
C30_Witness ==
    /\ ret.op = "Claim"
    /\ nclaims >= 1
    /\ seq > MAX_HISTORY
    /\ HistoryEntry(seq, lastClaim) \in table
    /\ Cardinality(table) = MAX_HISTORY
    /\ \A e \in table : e.ID >= seq - MAX_HISTORY + 1
    /\ ~\E e \in table : e.ID = seq - MAX_HISTORY


(***************************************************************************)
(* Immutability of the entries of the log.                                  *)
(***************************************************************************)
\* Entry e is an element of history h.
InHistory(h, e) == \E i \in 1..Len(h) : h[i] = e

\* C31 (entries are immutable): the history a Claim writes holds every entry of
\* the history it loaded, with its owner and timestamp as they were (the log
\* is below capacity, nothing is trimmed), also when the claimant has entries
\* in the log or is the current owner.
C31_EntriesImmutable ==
    [][\A p \in Pods :
          (FClaimReplace(p) /\ Len(fproc[p].data.History) < FileMaxHistory)
              => \A i \in 1..Len(fproc[p].data.History) :
                    InHistory(FileHistory', fproc[p].data.History[i])]_vars


(***************************************************************************)
(* Sequence numbers.                                                        *)
(***************************************************************************)
\* History h is in strictly decreasing order of ID.
StrictlyDecreasing(h) == \A i \in 1..Len(h) : \A j \in 1..Len(h) : i < j => h[i].ID > h[j].ID

\* C32 (sequence numbers never collide or regress): no entry of the log has an
\* ID above the last one handed out, which never decreases; every Claim writes
\* exactly one new entry, whose ID is above the last one handed out before it
\* (so above every entry ever written, trimmed or not) and above every entry of
\* the log; GetHistory is in strictly decreasing order of ID.
C32_SequenceMonotone ==
    /\ [](/\ \A e \in table : e.ID <= seq
          /\ StrictlyDecreasing(GetHistory(table))
          /\ Len(GetHistory(table)) = Cardinality(table))
    /\ [][/\ seq' >= seq
          /\ ClaimStep =>
                \E e \in table' \ table :
                    /\ table' \ table = {e}
                    /\ e.Owner = lastClaim'
                    /\ e.ID > seq
                    /\ e.ID = seq'
                    /\ \A f \in table : f.ID < e.ID]_vars

\* Claims went on after the first trim: the last Claim's entry has an ID two
\* above the capacity, and the two oldest IDs are gone from the log.
C32_Witness ==
    /\ ret.op = "Claim"
    /\ nclaims >= 2
    /\ seq >= MAX_HISTORY + 2
    /\ HistoryEntry(seq, lastClaim) \in table
    /\ \A e \in table : e.ID > 2
    /\ GetHistory(table)[1].ID = seq


(***************************************************************************)
(* CurrentOwner as a function of the log.                                   *)
(***************************************************************************)
\* C33 (CurrentOwner is derived from the log): a CurrentOwner call on a store
\* that is absent, empty or holds a well-formed log returns no error and the
\* owner of the first entry of the history, the empty string when the log is
\* empty or the store does not exist yet.
C33_CurrentOwnerDerived ==
    [][\A p \in Pods :
          (/\ FReadReturn(p)
           /\ fproc[p].op = "CurrentOwner"
           /\ fnode[fpath].kind # "corrupt")
              => fret' = [Ret(p, "CurrentOwner")
                            EXCEPT !.owner = IF FileHistory = <<>> THEN NoOwner
                                             ELSE FileHistory[1].Owner]]_vars


(***************************************************************************)
(* The three states of an identity.                                         *)
(***************************************************************************)
\* Identity X is the current owner of log t.
Leader(t, X) == Newest(t, X)

\* Identity X has no entry in log t.
Challenger(t, X) == ~InLog(t, X)

\* Identity X has an entry in log t and is not the current owner.
Superseded(t, X) == InLog(t, X) /\ ~Newest(t, X)

\* The state of identity X in log t.
StateOf(t, X) ==
    IF ~InLog(t, X) THEN "Challenger"
    ELSE IF Newest(t, X) THEN "Leader" ELSE "Superseded"

\* Exactly one of the three states holds of every identity.
OneStateEach ==
    \A X \in Pods :
        LET l == Leader(table, X)
            c == Challenger(table, X)
            s == Superseded(table, X)
        IN  (l /\ ~c /\ ~s) \/ (~l /\ c /\ ~s) \/ (~l /\ ~c /\ s)

\* A CheckSuccession call that returns gives the verdict of the caller's state.
VerdictOfState ==
    \A X \in Pods :
        CheckReturns(X)
            => LET s == Superseded(table, X) IN ret' = Verdict(X, ~s, s)

\* The changes of state a Claim of another identity can make.
ByOthersClaim ==
    {<<"Leader", "Superseded">>, <<"Challenger", "Challenger">>,
     <<"Superseded", "Superseded">>, <<"Superseded", "Challenger">>}

\* C34, as amended: every identity is in exactly one of the states Leader,
\* Challenger, Superseded; CheckSuccession returns (true,false), (true,false),
\* (false,true) respectively; a state changes only in a Claim step: the
\* claimant becomes Leader, and a Claim of another identity makes a Leader
\* Superseded, keeps a Challenger a Challenger, and keeps a Superseded
\* identity Superseded unless the trim removes its last entry, which makes
\* it a Challenger. (A step that leaves the log as it is changes no state.)
C34_ThreeStates ==
    /\ []OneStateEach
    /\ [][/\ VerdictOfState
          /\ table' # table =>
                \A X \in Pods :
                    LET before == StateOf(table, X)
                        after == StateOf(table', X)
                    IN  /\ after # before => ClaimStep
                        /\ (ClaimStep /\ lastClaim' = X) => after = "Leader"
                        /\ (ClaimStep /\ lastClaim' # X)
                              => <<before, after>> \in ByOthersClaim]_vars

\* The three states occur at once, and the Superseded identity's check has
\* returned (false, true).
C34_Witness ==
    /\ \E A \in Pods, C \in Pods :
          /\ Leader(table, A)
          /\ Challenger(table, C)
          /\ Superseded(table, ret.who)
    /\ ret.op = "CheckSuccession"
    /\ ret.isReplaced
    /\ ~ret.shouldProceed
    /\ nclaims >= 2

\* C34 as stated: the same, with the state of an identity changing only in
\* Claim steps of other identities.
C34_OnlyOthersClaims ==
    /\ []OneStateEach
    /\ [][/\ VerdictOfState
          /\ table' # table =>
                \A X \in Pods :
                    StateOf(table', X) # StateOf(table, X)
                        => (ClaimStep /\ lastClaim' # X)]_vars


(***************************************************************************)
(* The trim horizon.                                                        *)
(***************************************************************************)
\* The latest Claim of identity X is among the MAX_HISTORY most recent Claims.
WithinHorizon(X) == lastSeq[X] > seq - MAX_HISTORY

\* C35 (trim horizon): a CheckSuccession of an identity that claimed earlier
\* and is not the current owner returns (false, true) when its latest Claim is
\* among the MAX_HISTORY most recent Claims, and (true, false), as for an
\* identity that never claimed, once MAX_HISTORY or more later Claims were made.
C35_TrimHorizon ==
    [][\A X \in Pods :
          (CheckReturns(X) /\ lastSeq[X] > 0 /\ lastClaim # X)
              => ret' = (IF WithinHorizon(X) THEN Verdict(X, FALSE, TRUE)
                         ELSE Verdict(X, TRUE, FALSE))]_vars

\* An identity whose only Claim lies MAX_HISTORY or more Claims back checked
\* after a further Claim and was told to proceed as a new challenger.
C35_Witness ==
    /\ ret.op = "CheckSuccession"
    /\ lastSeq[ret.who] > 0
    /\ ~WithinHorizon(ret.who)
    /\ lastClaim # ret.who
    /\ ret.shouldProceed
    /\ ~ret.isReplaced
    /\ nclaims >= 1


(***************************************************************************)
(* Lock discipline of the file store.                                       *)
(***************************************************************************)
\* Process p holds a flock on some inode.
HoldsLock(p) == \E i \in 1..Len(flocks) : \E h \in flocks[i] : h[1] = p

\* The call of process p waits for the lock.
LockWait(p) == fproc[p].pc \in {"waiting", "rwaiting"}

\* The step is the lock timeout of a call of process p.
TimesOut(p) == FClaimTimeout(p) \/ FReadTimeout(p)

\* C36 (lock discipline): a call that waits for the lock can always end by its
\* timeout; the timeout returns a timeout error to the caller and leaves the
\* log as it is; and a process that is in no call holds no lock, whether its
\* last call returned nil, an error or a timeout.
C36_LockDiscipline ==
    /\ [](\A p \in Pods :
            /\ fproc[p].pc = "idle" => ~HoldsLock(p)
            /\ LockWait(p) => ENABLED TimesOut(p))
    /\ [][\A p \in Pods :
            TimesOut(p)
                => /\ fret'.who = p
                   /\ fret'.err \in {"timeout acquiring write lock",
                                     "timeout acquiring read lock"}
                   /\ FileHistory' = FileHistory
                   /\ fnode' = fnode
                   /\ fproc'[p].pc = "idle"
                   /\ ~HoldsLock(p)']_vars

\* A call timed out waiting for the lock while another process held it, and a
\* Claim that had held the lock has returned nil and holds it no more.
C36_Witness ==
    /\ fret.err \in {"timeout acquiring write lock", "timeout acquiring read lock"}
    /\ fproc[fret.who].pc = "idle"
    /\ \E q \in Pods \ {fret.who} : HoldsLock(q)
    /\ \E q \in Pods : fok[q] > 0 /\ fproc[q].pc = "idle" /\ ~HoldsLock(q)


(***************************************************************************)
(* CheckSuccession and concurrent Claims.                                   *)
(***************************************************************************)
\* C37 (CheckSuccession matches a state of the log): the verdict a
\* CheckSuccession of identity X returns is the verdict of the committed log
\* at the moment of the call's last read, whatever Claims committed between
\* its two reads: (false, true) only with X in the log and another identity the
\* current owner, (true, false) only with X the current owner or not in the
\* log.
C37_SnapshotVerdict ==
    [][\A X \in Pods :
          CheckReturns(X)
              => /\ ret'.err = "nil"
                 /\ ret'.isReplaced = ~ret'.shouldProceed
                 /\ ret'.isReplaced
                       => (InLog(table, X) /\ \E A \in Pods \ {X} : Newest(table, A))
                 /\ ret'.shouldProceed
                       => (Newest(table, X) \/ ~InLog(table, X))]_vars

\* A Claim of another identity committed between the two reads of a
\* CheckSuccession, which then returned (false, true).
C37_Witness ==
    /\ ret.op = "CheckSuccession"
    /\ ret.isReplaced
    /\ ~ret.shouldProceed
    /\ ret.who \in split
    /\ lastClaim # ret.who
    /\ pc[ret.who] = "idle"


(***************************************************************************)
(* Ownership recorded before the handoff.                                   *)
(***************************************************************************)
\* C38 (ownership is recorded before process replacement): a run of main that
\* sends the exit request or replaces itself by the daemon has made a Claim that
\* succeeded; a run whose Claim failed does neither.
C38_ClaimBeforeExec ==
    \A p \in Pods :
        /\ (Done(p, Did("exec", "ok")) \/ \E out \in {"ok", "err"} : Done(p, Did("exit", out)))
              => Done(p, Did("claim", "ok"))
        /\ Done(p, Did("claim", "err")) => opc[p] \notin {"exitcall", "exec", "daemon"}


(***************************************************************************)
(* The stale pid file.                                                      *)
(***************************************************************************)
\* The pid file is there and nothing accepts connections on its socket.
StalePid == pidfile # NoOwner /\ ~Accepts(pidfile)

\* The run of pod p has made no Claim, no exit request and no exec.
NoHandoff(p) ==
    \A i \in 1..Len(trace[p]) : trace[p][i].op \notin {"claim", "exit", "exec"}

\* C39 (stale pid file): a run of main that reaches DialBinary while the pid
\* file exists and its control socket cannot be dialed exits with status 1,
\* having made no Claim, no exit request and no exec, and leaves the pid file,
\* the sockets and the log as they are; no step of main changes the pid file
\* or the sockets, so a later run that finds them so ends the same way.
C39_StalePid ==
    [][\A p \in Pods :
          /\ (opc[p] = "dial" /\ opc'[p] # "dial" /\ StalePid)
                => /\ opc'[p] = "exit1"
                   /\ trace'[p][Len(trace'[p])].op = "dial"
                   /\ trace'[p][Len(trace'[p])].out \in {"err", "readerr", "parseerr"}
                   /\ NoHandoff(p)'
                   /\ conn'[p] = NoOwner
                   /\ StalePid'
                   /\ table' = table
          /\ opc'[p] # opc[p] => (pidfile' = pidfile /\ ctl' = ctl)]_vars

\* A run has ended with status 1 at DialBinary, with the pid file of a daemon
\* that listens no more still in place.
C39_Witness ==
    \E p \in Pods :
        /\ opc[p] = "exit1"
        /\ trace[p][Len(trace[p])] = Did("dial", "err")
        /\ NoHandoff(p)
        /\ StalePid


(***************************************************************************)
(* What a nil of FileRemoval.Verify says about the directory.               *)
(***************************************************************************)
\* C40 (nil means every match is gone): in a directory where files are only
\* removed, never created, once Verify has returned nil no file matches the
\* pattern any more; with several matching files at the start, the removal of
\* one of them does not make Verify return nil.
C40_AllRemoved ==
    (vpc = "returned" /\ vret = Nil) => Glob(pattern, dirFiles) = {}

====
